---- MODULE Spec2Model ----
(***************************************************************************)
(* A model of momi's Demography (src/demography.py) and of the SFS         *)
(* likelihood surface (src/momi/likelihood.py).                            *)
(*                                                                         *)
(* Python dicts are functions whose DOMAIN is the set of keys; a missing   *)
(* key is a key outside the DOMAIN.  The instance __dict__ in which        *)
(* cached_property stores a computed value is the variable cache: a        *)
(* property is cached iff its name is in DOMAIN cache, and `del` removes   *)
(* the name.                                                               *)
(***************************************************************************)
EXTENDS Integers, Sequences, FiniteSets, TLC

\* ------------------------------------------------------------- bounds
\* largest lineage / allele count carried by a node
MaxN == 1

VARIABLES
    edges,      \* the DiGraph's edge set, pairs <<parent, child>>
    attr,       \* the DiGraph's node attribute dicts
    cache,      \* cached_property values stored on the instance
    status,     \* "new": not built yet, "ok": built, "failed": the constructor raised
    last,       \* the most recent update_state call: its outcome and the nodes it named
    sfs,        \* SfsLikelihoodSurface.sfs: a sequence of [config, count]
    batch_size, \* SfsLikelihoodSurface.batch_size, in units of 1/BatchDenom
    mut_rate,   \* SfsLikelihoodSurface.mut_rate: <<>> is None, <<m>> is m
    sfs_batches,\* SfsLikelihoodSurface.sfs_batches
    lpc,        \* where the surface is: "new", "slicing" (in the loop of
                \* _build_sfs_batches), "ready", "AssertionError"
    prev_idx,   \* locals of _build_sfs_batches
    next_idx,
    slices,
    ret,        \* the outcome of the most recent call on the surface
    opt,        \* a find_optimum call on the surface: where it is and what it did
    cr,         \* the ConfidenceRegion instances and the most recent call on one
    fn          \* the most recent call of a module-level function: arguments and outcome

demoVars == <<edges, attr, cache, status, last>>

likVars == <<sfs, batch_size, mut_rate, sfs_batches, lpc, prev_idx, next_idx, slices, ret>>

auxVars == <<opt, cr, fn>>

vars == <<edges, attr, cache, status, last,
          sfs, batch_size, mut_rate, sfs_batches, lpc, prev_idx, next_idx, slices, ret,
          opt, cr, fn>>

\* ------------------------------------------------------------- helpers
Nodes == {"r", "a", "b"}

EmptyDict == [k \in {} |-> 0]

\* dict.update(upd) on a copy of old
Merge(old, upd) ==
    [k \in (DOMAIN old) \cup (DOMAIN upd) |-> IF k \in DOMAIN upd THEN upd[k] ELSE old[k]]

\* d with key k set to v
SetKey(d, k, v) == [x \in (DOMAIN d) \cup {k} |-> IF x = k THEN v ELSE d[x]]

\* `del d[k]`
DelKey(d, k) == [x \in (DOMAIN d) \ {k} |-> d[x]]

RECURSIVE SumOver(_, _)
SumOver(S, f) ==
    IF S = {} THEN 0
    ELSE LET x == CHOOSE y \in S : TRUE IN f[x] + SumOver(S \ {x}, f)

\* all the orders in which the elements of S can be iterated
Orders(S) ==
    {s \in [1..Cardinality(S) -> S] : \A i, j \in 1..Cardinality(S) : s[i] = s[j] => i = j}

\* ------------------------------------------------------------- graph
in_degree(E, v) == Cardinality({e \in E : e[2] = v})

out_degree(E, v) == Cardinality({e \in E : e[1] = v})

\* Demography.leaves
leaves(E) == {v \in Nodes : out_degree(E, v) = 0}

\* the candidates of Demography.root: the nodes of in-degree 0
RootCandidates(E) == {v \in Nodes : in_degree(E, v) = 0}

\* nx.dfs_preorder_nodes(G, v): the nodes reachable from S
RECURSIVE dfs_preorder_nodes(_, _)
dfs_preorder_nodes(E, S) ==
    LET S2 == S \cup {e[2] : e \in {f \in E : f[1] \in S}}
    IN IF S2 = S THEN S ELSE dfs_preorder_nodes(E, S2)

\* Demography.leaves_subtended_by
leaves_subtended_by(E) == [v \in Nodes |-> leaves(E) \cap dfs_preorder_nodes(E, {v})]

\* Demography.n_lineages_subtended_by; needs 'lineages' at every leaf
n_lineages_subtended_by(E, nd) ==
    [v \in Nodes |-> SumOver(leaves_subtended_by(E)[v], [l \in Nodes |->
        IF "lineages" \in DOMAIN nd[l] THEN nd[l].lineages ELSE 0])]

\* does computing n_derived_subtended_by raise KeyError?
DerivedComputable(E, nd) == \A l \in leaves(E) : "derived" \in DOMAIN nd[l]

\* Demography.n_derived_subtended_by
n_derived_subtended_by(E, nd) ==
    [v \in Nodes |-> SumOver(leaves_subtended_by(E)[v], [l \in Nodes |->
        IF "derived" \in DOMAIN nd[l] THEN nd[l].derived ELSE 0])]

\* ------------------------------------------------------------- inputs
Tree == {<<"r", "a">>, <<"r", "b">>}

Chain == {<<"r", "a">>, <<"a", "b">>}

TwoRoots == {<<"r", "a">>, <<"b", "a">>}

NoRoot == {<<"r", "a">>, <<"a", "r">>, <<"a", "b">>}

\* graphs a newick string parses to
NewickTrees == {Tree, Chain}

Graphs == {Tree, Chain, TwoRoots, NoRoot}

Counts == 0..MaxN

\* dicts over some of the keys K with values in V
DictsOver(K, V) == UNION {[D -> V] : D \in SUBSET K}

\* the attribute dict a leaf starts with: maybe lineages, maybe with an allele state
\* that adds up to them
LeafDicts ==
    {EmptyDict} \cup {[lineages |-> n] : n \in 1..MaxN}
    \cup UNION {{[lineages |-> n, derived |-> d, ancestral |-> n - d] : d \in 0..n} : n \in 1..MaxN}

ModelDicts == DictsOver({"model"}, {"constant", "exponential"})

\* the attribute dicts parsed from a node's comment
NodeDicts == {Merge(l, m) : l \in LeafDicts, m \in ModelDicts}

\* the default_lineages arguments: <<>> is None
DefaultLineages == {<<>>} \cup {<<n>> : n \in 1..MaxN}

\* the per-node dicts of a `state` argument: both allele counts, as normalizing_constant
\* (lines 165-185) builds them
StateDicts == [{"derived", "ancestral"} -> Counts]

\* the `state` arguments of update_state: new allele counts for some leaves
UpdateStates(E) == UNION {[D -> StateDicts] : D \in (SUBSET leaves(E)) \ {{}}}


\* ------------------------------------------------------------- Demography
\* line 77: the check of one node; a missing key raises KeyError
AddsUp(ndn) ==
    /\ {"lineages", "derived", "ancestral"} \subseteq DOMAIN ndn
    /\ ndn.lineages = ndn.derived + ndn.ancestral

\* the loop of update_state with the check of a node made before its merge
RECURSIVE UpdateLoopCheckFirst(_, _, _)
UpdateLoopCheckFirst(nd, state, order) ==
    IF order = <<>> THEN [nd |-> nd, raised |-> FALSE]
    ELSE LET node == Head(order)
             ndn == Merge(nd[node], state[node])
             nd2 == [nd EXCEPT ![node] = ndn]
         IN IF ~AddsUp(nd[node]) THEN [nd |-> nd2, raised |-> TRUE]
            ELSE UpdateLoopCheckFirst(nd2, state, Tail(order))

\* lines 74-78: the loop of update_state over the nodes of `state`, in iteration
\* order `order`; each node is merged first and checked after
RECURSIVE UpdateLoop(_, _, _)
UpdateLoop(nd, state, order) ==
    IF order = <<>> THEN [nd |-> nd, raised |-> FALSE]
    ELSE LET node == Head(order)
             ndn == Merge(nd[node], state[node])
             nd2 == [nd EXCEPT ![node] = ndn]
         IN IF ~AddsUp(ndn) THEN [nd |-> nd2, raised |-> TRUE]
            ELSE UpdateLoop(nd2, state, Tail(order))

\* Demography.__init__ alone: Demography(G) on a graph carrying no model fields
Construct ==
    /\ status = "new"
    /\ \A v \in Nodes : "model" \notin DOMAIN attr[v]
    /\ cache' = [node_data |-> TRUE, leaves |-> leaves(edges)]
    /\ status' = IF \A k \in leaves(edges) : "lineages" \in DOMAIN attr[k] THEN "ok" ELSE "failed"
    /\ UNCHANGED <<edges, attr, last>>
    /\ UNCHANGED <<likVars, auxVars>>

\* lines 116-117 of _newick_to_nx: the default lineages of a clade without the field
WithDefault(nd, default_lineages) ==
    IF "lineages" \notin DOMAIN nd /\ default_lineages # <<>>
    THEN SetKey(nd, "lineages", default_lineages[1]) ELSE nd

\* lines 13-22: does the loop over the edges raise "Unsupported model type"?
UnsupportedModel(E, nd) ==
    \E e \in E : "model" \in DOMAIN nd[e[2]] /\ nd[e[2]].model # "constant"

\* Demography.from_newick on the parsed tree; default_lineages is <<>> for None and
\* <<n>> for n.  When it raises the object under construction is dropped, so the
\* models the loop had already replaced are not kept
from_newick(default_lineages) ==
    /\ status = "new"
    /\ edges \in NewickTrees
    /\ LET nd0 == [v \in Nodes |-> WithDefault(attr[v], default_lineages)]
           built == \A k \in leaves(edges) : "lineages" \in DOMAIN nd0[k]
           ok == built /\ ~UnsupportedModel(edges, nd0)
       IN /\ status' = IF ok THEN "ok" ELSE "failed"
          /\ attr' = IF ok
                     THEN [v \in Nodes |-> SetKey(nd0[v], "model", "ConstantTruncatedSizeHistory")]
                     ELSE nd0
          /\ cache' = IF ok
                      THEN [node_data |-> TRUE, leaves |-> leaves(edges),
                            leaves_subtended_by |-> leaves_subtended_by(edges),
                            n_lineages_subtended_by |-> n_lineages_subtended_by(edges, nd0),
                            root |-> CHOOSE v \in RootCandidates(edges) : TRUE]
                      ELSE IF built
                      THEN [node_data |-> TRUE, leaves |-> leaves(edges),
                            leaves_subtended_by |-> leaves_subtended_by(edges),
                            n_lineages_subtended_by |-> n_lineages_subtended_by(edges, nd0)]
                      ELSE [node_data |-> TRUE, leaves |-> leaves(edges)]
    /\ UNCHANGED <<edges, last>>
    /\ UNCHANGED <<likVars, auxVars>>

\* Demography.update_state(state), the dict `state` iterated in the order `order`
update_state(state, order) ==
    /\ status = "ok"
    /\ LET res == UpdateLoop(attr, state, order)
           cached == "n_derived_subtended_by" \in DOMAIN cache
       IN /\ attr' = res.nd
          /\ IF res.raised
             THEN \* line 78: the caches are left as they were
                  /\ cache' = SetKey(cache, "node_data", TRUE)
                  /\ last' = [outcome |-> "raised", nodes |-> DOMAIN state]
             ELSE IF ~cached /\ ~DerivedComputable(edges, res.nd)
             THEN \* line 81: computing the property raises KeyError
                  /\ cache' = SetKey(cache, "node_data", TRUE)
                  /\ last' = [outcome |-> "raised", nodes |-> DOMAIN state]
             ELSE \* lines 82-83
                  /\ cache' = DelKey(DelKey(SetKey(cache, "leaves_subtended_by",
                                       leaves_subtended_by(edges)),
                                       "n_derived_subtended_by"), "node_data")
                  /\ last' = [outcome |-> "returned", nodes |-> DOMAIN state]
    /\ UNCHANGED <<edges, status>>
    /\ UNCHANGED <<likVars, auxVars>>

\* reading the cached property node_data
read_node_data ==
    /\ status = "ok"
    /\ "node_data" \notin DOMAIN cache
    /\ cache' = SetKey(cache, "node_data", TRUE)
    /\ UNCHANGED <<edges, attr, status, last>>
    /\ UNCHANGED <<likVars, auxVars>>

\* reading the cached property leaves_subtended_by
read_leaves_subtended_by ==
    /\ status = "ok"
    /\ "leaves_subtended_by" \notin DOMAIN cache
    /\ cache' = SetKey(cache, "leaves_subtended_by", leaves_subtended_by(edges))
    /\ UNCHANGED <<edges, attr, status, last>>
    /\ UNCHANGED <<likVars, auxVars>>

\* reading the cached property n_lineages_subtended_by
read_n_lineages_subtended_by ==
    /\ status = "ok"
    /\ "n_lineages_subtended_by" \notin DOMAIN cache
    /\ cache' = SetKey(SetKey(SetKey(cache, "node_data", TRUE),
                    "leaves_subtended_by", leaves_subtended_by(edges)),
                    "n_lineages_subtended_by", n_lineages_subtended_by(edges, attr))
    /\ UNCHANGED <<edges, attr, status, last>>
    /\ UNCHANGED <<likVars, auxVars>>

\* reading the cached property n_derived_subtended_by; a leaf without 'derived'
\* raises KeyError after node_data and leaves_subtended_by were cached
read_n_derived_subtended_by ==
    /\ status = "ok"
    /\ "n_derived_subtended_by" \notin DOMAIN cache
    /\ LET c1 == SetKey(SetKey(cache, "node_data", TRUE),
                    "leaves_subtended_by", leaves_subtended_by(edges))
       IN cache' = IF DerivedComputable(edges, attr)
                   THEN SetKey(c1, "n_derived_subtended_by", n_derived_subtended_by(edges, attr))
                   ELSE c1
    /\ UNCHANGED <<edges, attr, status, last>>
    /\ UNCHANGED <<likVars, auxVars>>

\* reading the cached property root; the assertion fails unless exactly one
\* node has in-degree 0
read_root ==
    /\ status = "ok"
    /\ "root" \notin DOMAIN cache
    /\ Cardinality(RootCandidates(edges)) = 1
    /\ cache' = SetKey(cache, "root", CHOOSE v \in RootCandidates(edges) : TRUE)
    /\ UNCHANGED <<edges, attr, status, last>>
    /\ UNCHANGED <<likVars, auxVars>>

\* no find_optimum call, no ConfidenceRegion, no function call
NoAux ==
    /\ opt = [pc |-> "none"]
    /\ cr = [pc |-> "none"]
    /\ fn = [op |-> "none"]

\* no likelihood surface
NoSurface ==
    /\ sfs = <<>> /\ batch_size = 0 /\ mut_rate = <<>> /\ sfs_batches = <<>>
    /\ lpc = "none" /\ prev_idx = 0 /\ next_idx = 0 /\ slices = <<>>
    /\ ret = [op |-> "none"]

\* a graph with lineages and allele states but no model fields, handed to Demography(G)
Init ==
    /\ edges \in Graphs
    /\ attr \in [Nodes -> LeafDicts]
    /\ \A v \in Nodes : out_degree(edges, v) > 0 => attr[v] = EmptyDict
    /\ cache = EmptyDict
    /\ status = "new"
    /\ last = [outcome |-> "none", nodes |-> {}]
    /\ NoSurface
    /\ NoAux

Next ==
    \/ Construct
    \/ \E state \in UpdateStates(edges) : \E order \in Orders(DOMAIN state) :
           update_state(state, order)
    \/ read_node_data
    \/ read_leaves_subtended_by
    \/ read_n_lineages_subtended_by
    \/ read_n_derived_subtended_by
    \/ read_root

Spec == Init /\ [][Next]_vars

\* a tree parsed from a newick string, its nodes carrying the fields of their comments
InitNewick ==
    /\ edges \in NewickTrees
    /\ attr \in [Nodes -> NodeDicts]
    /\ \A v \in Nodes : out_degree(edges, v) > 0 => attr[v] \in ModelDicts
    /\ cache = EmptyDict
    /\ status = "new"
    /\ last = [outcome |-> "none", nodes |-> {}]
    /\ NoSurface
    /\ NoAux

NextNewick == \E dl \in DefaultLineages : from_newick(dl)

SpecNewick == InitNewick /\ [][NextNewick]_vars

\* ------------------------------------------------------------- SFS
\* bounds of the likelihood model
MaxLen == 3

MaxCount == 2

MaxBatchNum == 5

BatchDenom == 2

\* the default truncate_probs of SfsLikelihoodSurface, one unit of probability
truncate_probs == 1

\* probabilities are counted in units of 1/ProbScale
ProbScale == 8

\* the configurations of the data: per leaf <<ancestral, derived>>, with two leaves
\* of 2 and 1 sampled alleles.  Config1/Config2 and Config3/Config4 are folded
\* copies of each other; Config5 misses one allele at the first leaf
Config1 == << <<1, 1>>, <<1, 0>> >>

Config2 == << <<1, 1>>, <<0, 1>> >>

Config3 == << <<2, 0>>, <<0, 1>> >>

Config4 == << <<0, 2>>, <<1, 0>> >>

Config5 == << <<1, 0>>, <<0, 1>> >>

Configs == {Config1, Config2, Config3, Config4, Config5}

\* the sampled number of alleles per leaf
sampled_n == <<2, 1>>

\* sequences over S without repetition, of length 1..n
DistinctSeqs(S, n) ==
    UNION {{q \in [1..k -> S] : \A i, j \in 1..k : q[i] = q[j] => i = j} : k \in 1..n}

\* the Sfs objects of at most n configurations
SfsOfLen(n) ==
    UNION {{[i \in 1..Len(q) |-> [config |-> q[i], count |-> c[i]]] :
                c \in [1..Len(q) -> 1..MaxCount]} : q \in DistinctSeqs(Configs, n)}

\* mutation rates: None, 0.0 and a positive rate
MutRates == {<<>>, <<0>>, <<1>>}

\* parameter vectors x
Params == {1, 2}

Min(a, b) == IF a < b THEN a ELSE b

Max(a, b) == IF a < b THEN b ELSE a

\* sfs.configs.value[:,:,0], [:,:,1] and their sum, for one configuration
ancestral_counts(c) == [l \in 1..Len(c) |-> c[l][1]]

derived_counts(c) == [l \in 1..Len(c) |-> c[l][2]]

totals(c) == [l \in 1..Len(c) |-> c[l][1] + c[l][2]]

\* Python's < on tuples of integers of one length
TupleLess(u, v) ==
    \E i \in 1..Len(u) : u[i] < v[i] /\ \A j \in 1..(i - 1) : u[j] = v[j]

\* line 197: min of the pair (ancestral tuple, derived tuple)
folded(c) ==
    IF TupleLess(derived_counts(c), ancestral_counts(c))
    THEN derived_counts(c) ELSE ancestral_counts(c)

\* line 199: the sort key (n, folded) and Python's < on it
keys(data) == [i \in 1..Len(data) |-> <<totals(data[i].config), folded(data[i].config)>>]

KeyLess(k1, k2) ==
    \/ TupleLess(k1[1], k2[1])
    \/ k1[1] = k2[1] /\ TupleLess(k1[2], k2[2])

\* sorted() is stable: i goes after every index whose key is not greater
InsertSorted(sq, i, ks) ==
    LET p == Cardinality({j \in 1..Len(sq) : ~KeyLess(ks[i], ks[sq[j]])})
    IN SubSeq(sq, 1, p) \o <<i>> \o SubSeq(sq, p + 1, Len(sq))

RECURSIVE SortedUpTo(_, _)
SortedUpTo(n, ks) == IF n = 0 THEN <<>> ELSE InsertSorted(SortedUpTo(n - 1, ks), n, ks)

\* the indexes left in their order: no sort
UnsortedIdxs(data) == [i \in 1..Len(data) |-> i]

\* line 200: sorted(range(sfs_len), key=lambda i: keys[i]), indexes from 1
sorted_idxs(data) == SortedUpTo(Len(data), keys(data))

\* the slice ending one element early
ShortSlice(sq, sl) == SubSeq(sq, sl[1] + 1, Min(sl[2], Len(sq)) - 1)

\* line 203: sorted_idxs[slice(start, stop)] with 0 <= start <= stop
Slice(sq, sl) == SubSeq(sq, sl[1] + 1, Min(sl[2], Len(sq)))

Range(sq) == {sq[i] : i \in 1..Len(sq)}

\* every count kept in every batch
AllCounts(data, idx) == [i \in 1..Len(data) |-> data[i].count]

\* lines 207-208: the counts of the indexes idx, zero elsewhere
subcounts(data, idx) == [i \in 1..Len(data) |-> IF i \in Range(idx) THEN data[i].count ELSE 0]

\* _sfs_subset(sfs, counts): the Sfs of the configurations whose count is not zero
RECURSIVE SubsetFrom(_, _, _)
SubsetFrom(data, counts, i) ==
    IF i > Len(data) THEN <<>>
    ELSE (IF counts[i] # 0 THEN <<[config |-> data[i].config, count |-> counts[i]]>> ELSE <<>>)
         \o SubsetFrom(data, counts, i + 1)

sfs_subset(data, counts) == SubsetFrom(data, counts, 1)

\* int(batch_size)
IntBatchSize == batch_size \div BatchDenom

\* np.ceil(a / float(b)) for integers a >= 0, b > 0
CeilDiv(a, b) == (a + b - 1) \div b

\* lines 15-31 and 167-176: the constructor up to the loop of _build_sfs_batches
SfsLikelihoodSurface_init ==
    /\ lpc = "new"
    /\ IF Len(sfs) * BatchDenom <= batch_size
       THEN /\ sfs_batches' = <<sfs>>
            /\ lpc' = "ready"
            /\ UNCHANGED <<prev_idx, next_idx, slices>>
       ELSE /\ prev_idx' = 0
            /\ next_idx' = IntBatchSize
            /\ slices' = <<>>
            /\ lpc' = "slicing"
            /\ UNCHANGED sfs_batches
    /\ UNCHANGED <<sfs, batch_size, mut_rate, ret>>
    /\ UNCHANGED <<demoVars, auxVars>>

\* lines 177-180: one turn of the while loop; the model follows at most
\* MaxLen + 1 turns of a loop that does not end
slice_loop ==
    /\ lpc = "slicing"
    /\ prev_idx < Len(sfs)
    /\ Len(slices) <= MaxLen
    /\ slices' = Append(slices, <<prev_idx, next_idx>>)
    /\ prev_idx' = next_idx
    /\ next_idx' = next_idx + IntBatchSize
    /\ UNCHANGED <<sfs, batch_size, mut_rate, sfs_batches, lpc, ret>>
    /\ UNCHANGED <<demoVars, auxVars>>

\* lines 182-211: after the loop
build_batches ==
    /\ lpc = "slicing"
    /\ ~(prev_idx < Len(sfs))
    /\ IF Len(slices) # CeilDiv(Len(sfs), IntBatchSize)
       THEN /\ lpc' = "AssertionError"
            /\ UNCHANGED sfs_batches
       ELSE /\ sfs_batches' =
                  [b \in 1..Len(slices) |->
                      sfs_subset(sfs, subcounts(sfs, Slice(sorted_idxs(sfs), slices[b])))]
            /\ lpc' = "ready"
    /\ UNCHANGED <<sfs, batch_size, mut_rate, prev_idx, next_idx, slices, ret>>
    /\ UNCHANGED <<demoVars, auxVars>>

\* ------------------------------------------------------------- likelihood
\* bounds of the calls on a surface
MaxLikLen == 2

MaxExact == 2

RoundErr == 1

RECURSIVE Log2Floor(_)
Log2Floor(v) == IF v <= 1 THEN 0 ELSE 1 + Log2Floor(v \div 2)

\* the value standing for -inf
MinusInf == 0 - ProbScale * ProbScale

\* np.log, in whole units; np.log(0) is -inf
log(v) == IF v = 0 THEN MinusInf ELSE Log2Floor(v)

\* expected_sfs(demo, configs, normalized=True) for the demography of x: a
\* probability in units of 1/ProbScale, 0 when it underflows
expected_sfs(x, c) == (x * (c[1][1] + 2 * c[1][2] + 4 * c[2][1] + 8 * c[2][2])) % (ProbScale + 1)

\* expected_total_branch_len(demo) for the demography of x
expected_total_branch_len(x) == x + 1

\* sfs.configs.has_missing_data
has_missing_data(data) == \E i \in 1..Len(data) : totals(data[i].config) # sampled_n

\* sfs.n_snps()
n_snps(data) == SumOver(1..Len(data), [i \in 1..Len(data) |-> data[i].count])

\* lines 288-290: sfs._integrate_sfs(np.log(np.maximum(expected_sfs, truncate_probs)))
integrate_log_probs(data, x) ==
    SumOver(1..Len(data), [i \in 1..Len(data) |->
        data[i].count * (log(Max(expected_sfs(x, data[i].config), truncate_probs)) - log(ProbScale))])

\* lines 300-311: _mut_factor(sfs, demo, mut_rate, False)
mut_factor(data, x, m) ==
    IF has_missing_data(data) THEN [err |-> "NotImplementedError", val |-> 0]
    ELSE LET lambd == m * expected_total_branch_len(x)
         IN [err |-> "none", val |-> (0 - lambd) + n_snps(data) * log(lambd)]

\* Python's truth value of self.mut_rate: None and 0.0 are false
Truthy(m) == m # <<>> /\ m[1] # 0

\* lines 41-43: the sum of _log_lik over the batches
RECURSIVE SumBatches(_, _)
SumBatches(batches, x) ==
    IF batches = <<>> THEN 0
    ELSE integrate_log_probs(Head(batches), x) + SumBatches(Tail(batches), x)

\* lines 33-49: the outcome of SfsLikelihoodSurface.log_likelihood(x)
LogLikelihood(x) ==
    LET llsum == SumBatches(sfs_batches, x)
        mf == mut_factor(sfs, x, mut_rate[1])
    IN IF ~Truthy(mut_rate) THEN [err |-> "none", val |-> llsum]
       ELSE IF mf.err # "none" THEN mf
       ELSE [err |-> "none", val |-> llsum + mf.val]

\* lines 254-298: the outcome of _composite_log_likelihood(sfs, demo(x), mut_rate)
CompositeLogLikelihood(data, x, m) ==
    LET ll == integrate_log_probs(data, x)
        mf == mut_factor(data, x, m[1])
    IN IF m = <<>> THEN [err |-> "none", val |-> ll]
       ELSE IF mf.err # "none" THEN mf
       ELSE [err |-> "none", val |-> ll + mf.val]

\* a call is made on a surface that was built; the surface keeps no state between
\* calls, so the model follows one call per surface
Callable == lpc = "ready" /\ ret.op = "none"

\* SfsLikelihoodSurface.log_likelihood(x)
log_likelihood(x) ==
    /\ Callable
    /\ LET r == LogLikelihood(x)
       IN ret' = [op |-> "log_likelihood", x |-> x, err |-> r.err, val |-> r.val, computed |-> r.val]
    /\ UNCHANGED <<sfs, batch_size, mut_rate, sfs_batches, lpc, prev_idx, next_idx, slices>>
    /\ UNCHANGED <<demoVars, auxVars>>

\* _composite_log_likelihood(self.sfs, self.demo_func(*x), self.mut_rate), as adam's
\* objective calls it
composite_log_likelihood(x) ==
    /\ Callable
    /\ LET r == CompositeLogLikelihood(sfs, x, mut_rate)
       IN ret' = [op |-> "_composite_log_likelihood", x |-> x, err |-> r.err, val |-> r.val,
                  computed |-> r.val]
    /\ UNCHANGED <<sfs, batch_size, mut_rate, sfs_batches, lpc, prev_idx, next_idx, slices>>
    /\ UNCHANGED <<demoVars, auxVars>>

\* lines 57-59: the Poisson part of the divergence, one locus
PoissonPart(data) == (0 - n_snps(data)) + n_snps(data) * log(n_snps(data))

\* lines 51-64: SfsLikelihoodSurface.kl_divergence(x).  n_snps * sfs._entropy is the
\* value for which the sum of lines 53-59 is `exact` (>= 0, Gibbs' inequality) in
\* real numbers; `rounding` is what floating point adds to that sum
kl_divergence(x, exact, rounding) ==
    /\ Callable
    /\ LET ll == LogLikelihood(x)
           poisson == IF Truthy(mut_rate) THEN PoissonPart(sfs) ELSE 0
           entropy_term == exact + ll.val - poisson
           total == (0 - ll.val) + entropy_term + poisson + rounding
           value == total \div n_snps(sfs)
       IN ret' = IF ll.err # "none"
                 THEN [op |-> "kl_divergence", x |-> x, err |-> ll.err, val |-> 0, computed |-> 0]
                 ELSE IF ~(value >= 0)
                 THEN [op |-> "kl_divergence", x |-> x, err |-> "AssertionError", val |-> 0,
                       computed |-> total]
                 ELSE [op |-> "kl_divergence", x |-> x, err |-> "none", val |-> value,
                       computed |-> total]
    /\ UNCHANGED <<sfs, batch_size, mut_rate, sfs_batches, lpc, prev_idx, next_idx, slices>>
    /\ UNCHANGED <<demoVars, auxVars>>

\* ------------------------------------------------------------- optimization
\* bounds of a find_optimum call
MaxSteps == 2

MaxOptLen == 2

\* the method argument: the two known names and another one
Methods == {"newton", "adam", "lbfgs"}

\* the keyword arguments find_optimum hands on: n_chunks is <<>> for None and
\* <<n>> for n, subsample_steps is <<k>>
Kwargs ==
    {Merge(a, b) : a \in DictsOver({"n_chunks"}, {<<>>, <<0>>, <<2>>}),
                   b \in DictsOver({"subsample_steps"}, {<<k>> : k \in 0..MaxSteps})}

\* the caller's start point
StartPoints == {0}

\* what an optimizer run ends with: a solution x, or an exception of the objective
OptimizerOutcomes == {<<x>> : x \in Params} \cup {<<>>}

RECURSIVE Pow2(_)
Pow2(k) == IF k = 0 THEN 1 ELSE 2 * Pow2(k - 1)

\* rgen.binomial(n, num/den): the values the draw can take
Binomial(n, num, den) == IF num = den THEN {n} ELSE IF num = 0 THEN {0} ELSE 0..n

\* self.sfs._total_freqs
total_freqs(data) == [i \in 1..Len(data) |-> data[i].count]

\* np.sum of a vector of counts
SumCounts(c) == SumOver(1..Len(c), c)

\* the draws of lines 111-114: <<subsample_counts, validation_counts>> after line 114,
\* for p = 1/pden
SubsampleDraws(data, pden) ==
    {<<[i \in 1..Len(data) |-> sc[i] - vc[i]], vc>> :
        <<sc, vc>> \in {d \in [1..Len(data) -> 0..MaxCount] \X [1..Len(data) -> 0..MaxCount] :
            \A i \in 1..Len(data) :
                /\ d[1][i] \in Binomial(total_freqs(data)[i], 2, pden)
                /\ d[2][i] \in Binomial(d[1][i], 1, 2)}}

\* every method but "adam" is taken for "newton"
NotAdam(method) == method # "adam"

\* line 75: method=="newton"
IsNewton(method) == method = "newton"

\* lines 78-79: kwargs['n_chunks'] raises KeyError
NChunksMissing(kwargs) == "n_chunks" \notin DOMAIN kwargs

\* line 315: n_chunks is None
NChunksIsNone(kwargs) == kwargs.n_chunks = <<>>

\* no step is skipped
NeverSkipped(train, valid) == FALSE

\* line 118: the step is skipped
Skipped(train, valid) == valid = 0 \/ train = 0

\* the same fraction at every step
AlwaysHalf(k) == 2

\* line 108: p = 2.0 ** (-substep), as the denominator of p
PDen(k) == Pow2(k)

\* lines 66-89: find_optimum(x0, method=method, **kwargs) on a built surface.  With
\* "newton" the call goes on in newton_step; with "adam" the whole of adam,
\* _sgd_composite_lik and _sgd_liks is followed up to the call of the optimizer
find_optimum(x0, method, kwargs, out) ==
    /\ lpc = "ready"
    /\ opt.pc = "none"
    /\ LET failed(e) == [pc |-> "raised", method |-> method, kwargs |-> kwargs, err |-> e,
                         x0 |-> x0, given |-> x0, calls |-> <<>>, results |-> <<>>, log |-> <<>>,
                         steps |-> 0, substep |-> 0]
           steps == IF "subsample_steps" \in DOMAIN kwargs THEN kwargs.subsample_steps[1] ELSE 0
       IN opt' =
            IF IsNewton(method)
            THEN IF "n_chunks" \in DOMAIN kwargs
                 THEN failed("TypeError")           \* newton() takes no n_chunks
                 ELSE [pc |-> "ladder", method |-> method, kwargs |-> kwargs, err |-> "none",
                       x0 |-> x0, given |-> x0, calls |-> <<>>, results |-> <<>>, log |-> <<>>,
                       steps |-> steps, substep |-> steps]
            ELSE IF method = "adam"
            THEN IF NChunksMissing(kwargs) THEN failed("TypeError")             \* line 79
                 ELSE IF Len(sfs_batches) # 1 THEN failed("NotImplementedError")  \* line 153
                 ELSE IF NChunksIsNone(kwargs) THEN failed("ValueError")          \* line 316
                 ELSE IF kwargs.n_chunks[1] = 0 THEN failed("ZeroDivisionError")  \* line 348
                 ELSE LET call == [kind |-> "sgd", pden |-> 1, start |-> x0, out |-> out]
                      IN [pc |-> IF out = <<>> THEN "raised" ELSE "returned",
                          method |-> method, kwargs |-> kwargs,
                          err |-> IF out = <<>> THEN "AssertionError" ELSE "none",
                          x0 |-> IF out = <<>> THEN x0 ELSE out[1], given |-> x0,
                          calls |-> <<call>>, results |-> <<>>, log |-> <<>>,
                          steps |-> 0, substep |-> 0]
            ELSE failed("ValueError")                                             \* line 83
    /\ UNCHANGED <<cr, fn>>
    /\ UNCHANGED <<demoVars, likVars>>

\* lines 106-137: one turn of the subsample loop of newton, with the draws of the
\* random generator and the outcome of _minimize
newton_step(draw, out) ==
    /\ opt.pc = "ladder"
    /\ opt.substep >= 1
    /\ LET pden == PDen(opt.substep)
           train == SumCounts(draw[1])
           valid == SumCounts(draw[2])
           skip == Skipped(train, valid)
           entry == [pden |-> pden, train |-> train > 0, valid |-> valid > 0,
                     start |-> opt.x0, called |-> ~skip]
           call == [kind |-> "minimize", pden |-> pden, start |-> opt.x0, out |-> out]
       IN /\ draw \in SubsampleDraws(sfs, pden)
          /\ skip => out = <<>>
          /\ opt' =
               IF skip
               THEN [opt EXCEPT !.substep = opt.substep - 1, !.log = Append(opt.log, entry)]
               ELSE IF out = <<>>
               THEN [opt EXCEPT !.pc = "raised", !.err = "AssertionError",
                                !.log = Append(opt.log, entry),
                                !.calls = Append(opt.calls, call)]
               ELSE [opt EXCEPT !.substep = opt.substep - 1, !.x0 = out[1],
                                !.log = Append(opt.log, entry),
                                !.calls = Append(opt.calls, call),
                                !.results = Append(opt.results, [pden |-> pden, x |-> out[1]])]
    /\ UNCHANGED <<cr, fn>>
    /\ UNCHANGED <<demoVars, likVars>>

\* lines 139-149: the fit on the full data and the return of newton
newton_fit(out) ==
    /\ opt.pc = "ladder"
    /\ opt.substep = 0
    /\ LET call == [kind |-> "minimize", pden |-> 1, start |-> opt.x0, out |-> out]
       IN opt' =
            IF out = <<>>
            THEN [opt EXCEPT !.pc = "raised", !.err = "AssertionError",
                             !.calls = Append(opt.calls, call)]
            ELSE [opt EXCEPT !.pc = "returned", !.x0 = out[1],
                             !.calls = Append(opt.calls, call),
                             !.results = IF opt.steps # 0
                                         THEN Append(opt.results, [pden |-> 1, x |-> out[1]])
                                         ELSE opt.results]
    /\ UNCHANGED <<cr, fn>>
    /\ UNCHANGED <<demoVars, likVars>>

\* a surface over at most MaxOptLen configurations, on which find_optimum is called
OptSfs ==
    {data \in SfsOfLen(MaxOptLen) :
        \A i \in 1..Len(data) : data[i].config = <<Config1, Config2, Config3, Config4, Config5>>[i]}

InitOpt ==
    /\ edges = {} /\ attr = EmptyDict /\ cache = EmptyDict /\ status = "none"
    /\ last = [outcome |-> "none", nodes |-> {}]
    /\ sfs \in OptSfs
    /\ batch_size \in 1..MaxBatchNum
    /\ mut_rate = <<>>
    /\ sfs_batches = <<>> /\ lpc = "new" /\ prev_idx = 0 /\ next_idx = 0 /\ slices = <<>>
    /\ ret = [op |-> "none"]
    /\ NoAux

NextOpt ==
    \/ SfsLikelihoodSurface_init
    \/ slice_loop
    \/ build_batches
    \/ \E x0 \in StartPoints : \E method \in Methods : \E kwargs \in Kwargs :
       \E out \in OptimizerOutcomes : find_optimum(x0, method, kwargs, out)
    \/ \E draw \in [1..Len(sfs) -> 0..MaxCount] \X [1..Len(sfs) -> 0..MaxCount] :
       \E out \in OptimizerOutcomes : newton_step(draw, out)
    \/ \E out \in OptimizerOutcomes : newton_fit(out)

SpecOpt == InitOpt /\ [][NextOpt]_vars

\* ------------------------------------------------------------- rearrange_gradient
\* bounds of a backward call
MaxTapes == 2

MaxGrad == 2

\* the values of a gradient entry and of the incoming g
GradVals == {-1, 0, 2}

\* sequences over S of length lo..hi
SeqsOf(S, lo, hi) == UNION {[1..k -> S] : k \in lo..hi}

\* every tape must be incomplete
AllIncomplete(tapes) == tapes # <<>> /\ \A i \in 1..Len(tapes) : ~tapes[i]

\* line 221: any([not t.complete for t in x.tapes]); a tape is its `complete` flag
AnyIncomplete(tapes) == \E i \in 1..Len(tapes) : ~tapes[i]

\* lines 220-223: inner_grad(g) for the gradient gx stored by inner_fun
inner_grad(tapes, gx, g) ==
    IF AnyIncomplete(tapes) THEN [err |-> "NotImplementedError", val |-> <<>>]
    ELSE [err |-> "none", val |-> [i \in 1..Len(gx) |-> g * gx[i]]]

\* the backward pass through outer_fun: inner_fun stored gx in the container
\* (line 229), inner_gradmaker took it out (line 219) and inner_grad is called
backward(tapes, gx, g) ==
    /\ fn.op = "none"
    /\ LET r == inner_grad(tapes, gx, g)
       IN fn' = [op |-> "inner_grad", tapes |-> tapes, gx |-> gx, g |-> g,
                 err |-> r.err, val |-> r.val]
    /\ UNCHANGED <<opt, cr>>
    /\ UNCHANGED <<demoVars, likVars>>

\* no Demography and no surface
NoDemography ==
    /\ edges = {} /\ attr = EmptyDict /\ cache = EmptyDict /\ status = "none"
    /\ last = [outcome |-> "none", nodes |-> {}]

\* a module-level function is called
InitFn == NoDemography /\ NoSurface /\ NoAux

NextGrad ==
    /\ fn.op = "none"
    /\ \E tapes \in SeqsOf(BOOLEAN, 0, MaxTapes) : \E gx \in SeqsOf(GradVals, 1, MaxGrad) :
       \E g \in GradVals : backward(tapes, gx, g)

SpecGrad == InitFn /\ [][NextGrad]_vars

\* ------------------------------------------------------------- ConfidenceRegion
\* bound: the runs of a failing computation the model follows
MaxRuns == 2

\* the ConfidenceRegion objects
Instances == {1, 2}

\* the observed Fisher information and score covariance of an instance, one parameter
FisherVals == {1, 2}

ScoreCovVals == {-1, 1}

Regimes == {"long", "many", "short"}

\* the ways of calling godambe: godambe(), godambe(b), godambe(inverse=b), as
\* <<args[1:], set of the kw items>>
CallForms ==
    {<< <<>>, {} >>} \cup {<< <<b>>, {} >> : b \in BOOLEAN}
                     \cup {<< <<>>, {<<"inverse", b>>} >> : b \in BOOLEAN}

\* the value the parameter inverse takes in a call of that form
InverseOf(form) ==
    IF form[1] # <<>> THEN form[1][1]
    ELSE IF form[2] # {} THEN (CHOOSE it \in form[2] : TRUE)[2]
    ELSE FALSE

\* the key without the keyword arguments
KeyWithoutKw(form) == <<"godambe", form[1], {}>>

\* util.py line 109: key = (self.func, args[1:], frozenset(kw.items()))
MemoKey(form) == <<"godambe", form[1], form[2]>>

\* lines 408-412, one parameter, as the fraction <<numerator, denominator>>:
\* fisher_inv * score_cov * fisher_inv, inverted unless inverse; check_psd raises on
\* a matrix that is not positive semi-definite
Sandwich(f, c, inverse) ==
    IF c < 0 THEN [err |-> "AssertionError", val |-> <<>>]
    ELSE [err |-> "none", val |-> IF ~inverse THEN <<f * f, c>> ELSE <<c, f * f>>]

NoInstance == [built |-> FALSE]

\* lines 362-394: ConfidenceRegion(point, demo_func, data, regime) bound to name i
ConfidenceRegion_init(i, f, c, regime) ==
    /\ ~cr.inst[i].built
    /\ cr' = IF regime \notin {"long", "many"}
             THEN [cr EXCEPT !.call = [op |-> "init", inst |-> i, err |-> "ValueError"]]
             ELSE [cr EXCEPT !.inst[i] = [built |-> TRUE, fisher |-> f, score_cov |-> c,
                                          memo |-> EmptyDict, done |-> EmptyDict, failed |-> 0],
                             !.call = [op |-> "init", inst |-> i, err |-> "none"]]
    /\ UNCHANGED <<opt, fn>>
    /\ UNCHANGED <<demoVars, likVars>>

\* util.py lines 103-114 around lines 401-412: a call of godambe on instance i
godambe(i, form) ==
    /\ cr.inst[i].built
    /\ LET me == cr.inst[i]
           key == MemoKey(form)
           r == Sandwich(me.fisher, me.score_cov, InverseOf(form))
           ran(k) == IF k \in DOMAIN me.done THEN me.done[k] ELSE 0
       IN IF key \in DOMAIN me.memo
          THEN cr' = [cr EXCEPT !.call = [op |-> "godambe", inst |-> i, form |-> form,
                                          err |-> "none", val |-> me.memo[key]]]
          ELSE IF r.err # "none"
          THEN /\ me.failed < MaxRuns
               /\ cr' = [cr EXCEPT !.inst[i].failed = me.failed + 1,
                                   !.call = [op |-> "godambe", inst |-> i, form |-> form,
                                             err |-> r.err, val |-> <<>>]]
          ELSE cr' = [cr EXCEPT !.inst[i].memo = SetKey(me.memo, key, r.val),
                                !.inst[i].done = SetKey(me.done, key, ran(key) + 1),
                                !.call = [op |-> "godambe", inst |-> i, form |-> form,
                                          err |-> "none", val |-> r.val]]
    /\ UNCHANGED <<opt, fn>>
    /\ UNCHANGED <<demoVars, likVars>>

InitGodambe ==
    /\ NoDemography /\ NoSurface
    /\ opt = [pc |-> "none"] /\ fn = [op |-> "none"]
    /\ cr = [inst |-> [i \in Instances |-> NoInstance], call |-> [op |-> "none"]]

NextGodambe ==
    \/ \E i \in Instances : \E f \in FisherVals : \E c \in ScoreCovVals : \E regime \in Regimes :
           ConfidenceRegion_init(i, f, c, regime)
    \/ \E i \in Instances : \E form \in CallForms : godambe(i, form)

SpecGodambe == InitGodambe /\ [][NextGodambe]_vars

\* ------------------------------------------------------------- _project_scores
\* the parameters of the model, by position
ParamIdx == {1, 2}

\* bound: the number of simulated scores
MaxSims == 1

\* entries of a simulated score, of the diagonal of the Fisher information, and of
\* init_vals
ScoreVals == {-2, 0, 2}

FisherDiagVals == {1, 2}

InitEntryVals == {0, 1}

\* entries of a cone: <<>> is None (unconstrained), <<0>> fixed, <<1>> >= 0, <<-1>> <= 0
ConeVals == {<<>>, <<0>>, <<1>>, <<-1>>}

Cones == [ParamIdx -> ConeVals]

\* K vectors, one entry out of S per parameter
Matrices(S, K) == [1..K -> [ParamIdx -> S]]

\* the positions of the coordinates that are kept / the kept coordinates of a vector
RECURSIVE KeptFrom(_, _)
KeptFrom(polyhedral_cone, j) ==
    IF j > Len(polyhedral_cone) THEN <<>>
    ELSE (IF polyhedral_cone[j] = <<0>> THEN <<>> ELSE <<j>>) \o KeptFrom(polyhedral_cone, j + 1)

\* lines 673, 675-677: multiplication by proj, the rows of the identity for the
\* coordinates that are not fixed
Project(v, polyhedral_cone) ==
    LET kept == KeptFrom(polyhedral_cone, 1) IN [j \in 1..Len(kept) |-> v[kept[j]]]

\* line 680: multiplication of a reduced vector by proj
Lift(v, polyhedral_cone) ==
    LET kept == KeptFrom(polyhedral_cone, 1)
    IN [j \in 1..Len(polyhedral_cone) |->
           IF \E k \in 1..Len(kept) : kept[k] = j
           THEN v[CHOOSE k \in 1..Len(kept) : kept[k] = j] ELSE 0]

\* lines 686-718 for a diagonal Fisher information: the maximiser of
\* x*z - x*F*x/2 over the cone, coordinate by coordinate
SolveCoord(z, f, c) ==
    LET x == z \div f
    IN IF c = <<1>> THEN Max(x, 0) ELSE IF c = <<-1>> THEN Min(x, 0) ELSE x

\* the value x*z - x*F*x/2, in halves
Lik2(x, z, fisher) == SumOver(1..Len(x), [j \in 1..Len(x) |-> 2 * x[j] * z[j] - fisher[j] * x[j] * x[j]])

\* line 672: the MLEs returned when every coordinate is fixed
AllFixedMles(init_vals, n) == init_vals

\* lines 634-718: _project_scores(simulated_scores, fisher_information,
\* polyhedral_cone, init_vals); init is <<>> for None and <<matrix>> otherwise;
\* depth counts the recursive calls
RECURSIVE project_scores(_, _, _, _)
project_scores(simulated_scores, fisher, polyhedral_cone, init) ==
    LET K == Len(simulated_scores)
        n == Len(polyhedral_cone)
        init_vals == IF init = <<>> THEN [k \in 1..K |-> [j \in 1..n |-> 0]] ELSE init[1]
        fixed_params == [j \in 1..n |-> polyhedral_cone[j] = <<0>>]
    IN IF \E j \in 1..n : fixed_params[j]
       THEN IF \A j \in 1..n : fixed_params[j]
            THEN [liks |-> [k \in 1..K |-> 0], mles |-> AllFixedMles(init_vals, n), depth |-> 0]
            ELSE LET sub == project_scores(
                                [k \in 1..K |-> Project(simulated_scores[k], polyhedral_cone)],
                                Project(fisher, polyhedral_cone),
                                Project(polyhedral_cone, polyhedral_cone),
                                <<[k \in 1..K |-> Project(init_vals[k], polyhedral_cone)]>>)
                 IN [liks |-> sub.liks,
                     mles |-> [k \in 1..K |-> Lift(sub.mles[k], polyhedral_cone)],
                     depth |-> sub.depth + 1]
       ELSE LET mles == [k \in 1..K |-> [j \in 1..n |->
                            SolveCoord(simulated_scores[k][j], fisher[j], polyhedral_cone[j])]]
            IN [liks |-> [k \in 1..K |-> Lik2(mles[k], simulated_scores[k], fisher)],
                mles |-> mles, depth |-> 0]

\* a call of _project_scores
call_project_scores(simulated_scores, fisher, polyhedral_cone, init) ==
    /\ fn.op = "none"
    /\ LET r == project_scores(simulated_scores, fisher, polyhedral_cone, init)
       IN fn' = [op |-> "_project_scores", cone |-> polyhedral_cone, init |-> init,
                 scores |-> simulated_scores, liks |-> r.liks, mles |-> r.mles,
                 depth |-> r.depth]
    /\ UNCHANGED <<opt, cr>>
    /\ UNCHANGED <<demoVars, likVars>>

NextProj ==
    /\ fn.op = "none"
    /\ \E K \in 1..MaxSims :
       \E simulated_scores \in Matrices(ScoreVals, K) :
       \E fisher \in [ParamIdx -> FisherDiagVals] :
       \E polyhedral_cone \in Cones :
       \E init \in {<<>>} \cup {<<iv>> : iv \in Matrices(InitEntryVals, K)} :
           call_project_scores(simulated_scores, fisher, polyhedral_cone, init)

SpecProj == InitFn /\ [][NextProj]_vars

\* ------------------------------------------------------------- ConfidenceRegion.test
\* bound: the number of Gaussian simulations (the argument sims)
MaxDraws == 2

\* p-values are counted in units of 1/PScale
PScale == 4

\* the points tests are made at; self.point is the first
ThePoint == [j \in ParamIdx |-> 0]

OtherPoint == [j \in ParamIdx |-> 1]

ThirdPoint == [j \in ParamIdx |-> IF j = 1 THEN 1 ELSE 0]

TestPoints == {ThePoint, OtherPoint, ThirdPoint}

\* the argument null_point: one point, or a list of two
NullPointArgs ==
    {[ndim |-> 1, rows |-> <<p>>] : p \in TestPoints}
        \cup {[ndim |-> 2, rows |-> <<p, q>>] : p \in {ThePoint, OtherPoint}, q \in {ThirdPoint}}

\* the simulated scores np.random.multivariate_normal can return
TestScores ==
    {[j \in ParamIdx |-> 0], [j \in ParamIdx |-> IF j = 1 THEN -2 ELSE 2]}

TestTypes == {"ratio", "wald", "score"}

\* lik_fun(p): the composite log likelihood at the point p
lik_fun(p) == 0 - SumOver(ParamIdx, [j \in ParamIdx |-> j * p[j]])

\* line 542: _trunc_lik_ratio(null, alt); np.isclose is equality on exact values
trunc_lik_ratio(null, alt) == (IF alt = null THEN 0 ELSE 1) * (null - alt)

\* np.mean of a vector of truth values, as <<numerator, denominator>>
MeanOf(flags) == <<Cardinality({k \in 1..Len(flags) : flags[k]}), Len(flags)>>

\* 1 - scipy.stats.chi2.cdf(stat, df), in units of 1/PScale
chi2_sf(stat) == Max(0, PScale - stat)

\* some entry of the null cone is not 0, some entry of the alternative cone not None
AllGeneral(null_cone, alt_cone) ==
    \/ \A j \in ParamIdx : null_cone[j] # <<0>>
    \/ \A j \in ParamIdx : alt_cone[j] # <<>>

\* line 513: np.any(np.array(null_cone) != 0) or any(a_c != (None,)*len(self.point)
\* for a_c in alt_cone); the cones of all tests are the broadcast of one
NotSimple(null_cone, alt_cone) ==
    \/ \E j \in ParamIdx : null_cone[j] # <<0>>
    \/ \E j \in ParamIdx : alt_cone[j] # <<>>

\* p_only keeps the first column only
FirstTwoColumns(rows, p_only) ==
    IF p_only THEN [h \in 1..Len(rows) |-> <<rows[h][1], rows[h][2]>>] ELSE rows

\* lines 526-527: ret[:,0] when p_only
Columns(rows, p_only) ==
    IF p_only THEN [h \in 1..Len(rows) |-> <<rows[h][1]>>] ELSE rows

\* lines 497-502 and 507: the simulated likelihood-ratio statistics, in halves
LrDistn(null_cone, alt_cone, sims, fisher) ==
    LET null == project_scores(sims, fisher, null_cone, <<>>)
        alt == project_scores(sims, fisher, alt_cone, <<null.mles>>)
    IN [k \in 1..Len(sims) |-> trunc_lik_ratio(null.liks[k], alt.liks[k])]

\* lines 492-495 and 506: the observed likelihood-ratio statistic of every test, in halves
ObservedLr(null_point, alt_point) ==
    [h \in 1..Len(null_point) |->
        trunc_lik_ratio(2 * lik_fun(null_point[h]), 2 * lik_fun(alt_point))]

\* lines 508-510: the rows of the likelihood-ratio test
RatioRows(lr, lr_distn) ==
    [h \in 1..Len(lr) |->
        << MeanOf([k \in 1..Len(lr_distn) |-> lr[h] > lr_distn[k]]),
           MeanOf([k \in 1..Len(lr_distn) |-> lr[h] = lr_distn[k]]),
           MeanOf([k \in 1..Len(lr_distn) |-> lr[h] < lr_distn[k]]) >>]

\* lines 518-522: the rows of the Wald test for the Godambe information gdmb, a
\* multiple <<num, den>> of the identity
WaldRows(null_point, alt_point, gdmb) ==
    [h \in 1..Len(null_point) |->
        LET resids == [j \in ParamIdx |-> alt_point[j] - null_point[h][j]]
            stat == (SumOver(ParamIdx, [j \in ParamIdx |-> resids[j] * resids[j]]) * gdmb[1])
                        \div gdmb[2]
        IN << <<chi2_sf(stat), PScale>>, <<0, PScale>>, <<PScale - chi2_sf(stat), PScale>> >>]

\* lines 414-530: test(null_point, sims, test_type, alt_point, null_cone, alt_cone,
\* p_only) on instance i; an argument left out (None) is <<>>; sims are the draws of
\* line 490
test(i, null_point, sims, test_type, alt_point, null_cone, alt_cone, p_only) ==
    /\ cr.inst[i].built
    /\ LET me == cr.inst[i]
           nc == IF null_cone = <<>> THEN [j \in ParamIdx |-> <<0>>] ELSE null_cone[1]
           ac == IF alt_cone = <<>> THEN [j \in ParamIdx |-> <<>>] ELSE alt_cone[1]
           ap == IF alt_point = <<>> THEN ThePoint ELSE alt_point[1]
           key == MemoKey(<< <<>>, {<<"inverse", FALSE>>} >>)
           gd == IF key \in DOMAIN me.memo THEN [err |-> "none", val |-> me.memo[key]]
                 ELSE Sandwich(me.fisher, me.score_cov, FALSE)
           call == [op |-> "test", inst |-> i, test_type |-> test_type, p_only |-> p_only,
                    tests |-> Len(null_point.rows), draws |-> Len(sims),
                    null_cone |-> nc, alt_cone |-> ac,
                    squeezed |-> null_point.ndim = 1, err |-> "none", val |-> <<>>,
                    lr |-> IF test_type = "ratio" THEN ObservedLr(null_point.rows, ap) ELSE <<>>,
                    lr_distn |-> IF test_type = "ratio"
                                 THEN LrDistn(nc, ac, sims, [j \in ParamIdx |-> me.fisher])
                                 ELSE <<>>]
           returned(rows) == [cr EXCEPT !.call = [call EXCEPT !.err = "none",
                                                              !.val = Columns(rows, p_only)]]
           raised(e) == [cr EXCEPT !.call = [call EXCEPT !.err = e, !.val = <<>>]]
       IN cr' =
            IF test_type = "ratio"
            THEN returned(RatioRows(call.lr, call.lr_distn))
            ELSE IF test_type = "wald"
            THEN IF NotSimple(nc, ac) THEN raised("NotImplementedError")
                 ELSE IF gd.err # "none"
                 THEN [raised(gd.err) EXCEPT !.inst[i].failed = me.failed + 1]
                 ELSE [returned(WaldRows(null_point.rows, ap, gd.val)) EXCEPT
                          !.inst[i].memo = SetKey(me.memo, key, gd.val),
                          !.inst[i].done = IF key \in DOMAIN me.memo THEN me.done
                                           ELSE SetKey(me.done, key, 1)]
            ELSE raised("NotImplementedError")
    /\ UNCHANGED <<opt, fn>>
    /\ UNCHANGED <<demoVars, likVars>>

\* one ConfidenceRegion, constructed
InitTest ==
    /\ NoDemography /\ NoSurface
    /\ opt = [pc |-> "none"] /\ fn = [op |-> "none"]
    /\ \E f \in FisherVals : \E c \in ScoreCovVals :
           cr = [inst |-> [i \in Instances |->
                             IF i = 1
                             THEN [built |-> TRUE, fisher |-> f, score_cov |-> c,
                                   memo |-> EmptyDict, done |-> EmptyDict, failed |-> 0]
                             ELSE NoInstance],
                 call |-> [op |-> "init", inst |-> 1, err |-> "none"]]

NextTest ==
    /\ cr.call.op = "init"
    /\ \E null_point \in NullPointArgs :
       \E test_type \in TestTypes :
       \E K \in 1..(IF test_type = "ratio" THEN MaxDraws ELSE 1) :
       \E sims \in IF test_type = "ratio" THEN [1..K -> TestScores]
                   ELSE {[k \in 1..K |-> ThePoint]} :     \* no draw is made
       \E alt_point \in {<<>>, <<OtherPoint>>} :
       \E null_cone \in {<<>>} \cup {<<cn>> : cn \in Cones} :
       \E alt_cone \in {<<>>} \cup {<<cn>> : cn \in Cones} :
       \E p_only \in BOOLEAN :
           test(1, null_point, sims, test_type, alt_point, null_cone, alt_cone, p_only)

SpecTest == InitTest /\ [][NextTest]_vars

\* ------------------------------------------------------------- util.truncate0
\* Numbers are decimal floating-point values  m * 10^e  with a signed one-digit
\* mantissa m; zero is the value with m = 0.  The relative tolerance 1e-13 and the
\* floor 1e-300 of truncate0 are kept as powers of ten.

TolExp == 13

FloorExp == 300

Mantissas == {1, 2}

Exponents == {0 - (FloorExp + TolExp), 0 - TolExp, 0}

Zero == [m |-> 0, e |-> 0]

Floats == {Zero} \cup {[m |-> s * k, e |-> x] : s \in {-1, 1}, k \in Mantissas, x \in Exponents}

RowIdx == {1, 2}

ColIdx == {1, 2}

Arrays == [RowIdx \X ColIdx -> Floats]

\* axis=None, axis=0, axis=1
Axes == {<<>>, <<0>>, <<1>>}

Sign(a) == IF a.m > 0 THEN 1 ELSE IF a.m < 0 THEN -1 ELSE 0

\* a < b
Lt(a, b) ==
    IF Sign(a) # Sign(b) THEN Sign(a) < Sign(b)
    ELSE IF Sign(a) = 0 THEN FALSE
    ELSE IF Sign(a) = 1 THEN a.e < b.e \/ (a.e = b.e /\ a.m < b.m)
    ELSE a.e > b.e \/ (a.e = b.e /\ a.m < b.m)

Leq(a, b) == a = b \/ Lt(a, b)

Negate(a) == [m |-> 0 - a.m, e |-> a.e]

Maximum(a, b) == IF Lt(a, b) THEN b ELSE a

\* 1e-13 * a
TimesTol(a) == IF a.m = 0 THEN Zero ELSE [m |-> a.m, e |-> a.e - TolExp]

FloorValue == [m |-> 1, e |-> 0 - FloorExp]

\* the slices np.amin and np.amax reduce over: the whole array for axis=None, the
\* columns for axis=0, the rows for axis=1
Slices(axis) ==
    IF axis = <<>> THEN {RowIdx \X ColIdx}
    ELSE IF axis = <<0>> THEN {{<<i, j>> : i \in RowIdx} : j \in ColIdx}
    ELSE {{<<i, j>> : j \in ColIdx} : i \in RowIdx}

SliceOf(axis, ij) == CHOOSE s \in Slices(axis) : ij \in s

amin(x, s) == CHOOSE v \in {x[ij] : ij \in s} : \A ij \in s : Leq(v, x[ij])

amax(x, s) == CHOOSE v \in {x[ij] : ij \in s} : \A ij \in s : Leq(x[ij], v)

mins(x, s) == Maximum(Negate(amin(x, s)), Zero)

maxes(x, s) == Maximum(amax(x, s), FloorValue)

WithinTolerance(x, axis) == \A s \in Slices(axis) : Leq(mins(x, s), TimesTol(maxes(x, s)))

BelowNegatedMins(x, axis, ij) == Lt(x[ij], Negate(mins(x, SliceOf(axis, ij))))

\* x < mins, with mins broadcast along the reduced axis
BelowMins(x, axis, ij) == Lt(x[ij], mins(x, SliceOf(axis, ij)))

truncate0(x, axis) ==
    /\ fn.op = "none"
    /\ IF ~WithinTolerance(x, axis)
       THEN fn' = [op |-> "truncate0", x |-> x, axis |-> axis,
                   err |-> "AssertionError", val |-> x]
       ELSE fn' = [op |-> "truncate0", x |-> x, axis |-> axis, err |-> "none",
                   val |-> [ij \in RowIdx \X ColIdx |->
                               IF BelowMins(x, axis, ij) THEN Zero ELSE x[ij]]]
    /\ UNCHANGED <<opt, cr>>
    /\ UNCHANGED <<demoVars, likVars>>

NextTruncate ==
    /\ fn.op = "none"
    /\ \E x \in Arrays : \E axis \in Axes : truncate0(x, axis)

SpecTruncate == InitFn /\ [][NextTruncate]_vars

\* ------------------------------------------------------------- util.polymorphic_configs
MaxLineages == 2

\* the attribute dicts of the leaves of a demography whose configurations are listed
SampledLeafDicts ==
    {EmptyDict} \cup {[lineages |-> n] : n \in 1..MaxLineages}
    \cup UNION {{[lineages |-> n, derived |-> d, ancestral |-> n - d] : d \in 0..n} :
                    n \in 1..MaxLineages}

\* the nodes in the order sorted() puts them in
NodeOrder == <<"a", "b", "r">>

\* sorted(demo.leaves)
SortedLeaves(E) == SelectSeq(NodeOrder, LAMBDA v : v \in leaves(E))

\* demo.n_lineages(l)
n_lineages(nd, l) == nd[l].lineages

RECURSIVE SumSeq(_)
SumSeq(s) == IF s = <<>> THEN 0 ELSE Head(s) + SumSeq(Tail(s))

\* range(n): 0, 1, ..., n-1
range(n) == [i \in 1..n |-> i - 1]

RECURSIVE Prepend(_, _)
Prepend(v, tuples) ==
    IF tuples = <<>> THEN <<>> ELSE << <<v>> \o Head(tuples) >> \o Prepend(v, Tail(tuples))

RECURSIVE PrependEach(_, _)
PrependEach(vals, tuples) ==
    IF vals = <<>> THEN <<>>
    ELSE Prepend(Head(vals), tuples) \o PrependEach(Tail(vals), tuples)

\* list(itertools.product(*ranges))
RECURSIVE product(_)
product(ranges) ==
    IF ranges = <<>> THEN << <<>> >>
    ELSE PrependEach(Head(ranges), product(Tail(ranges)))

ConfigList(E, nd) ==
    LET n == SumOver(leaves(E), [l \in Nodes |-> IF l \in leaves(E) THEN n_lineages(nd, l) ELSE 0])
        sorted == SortedLeaves(E)
        ranges == [i \in 1..Len(sorted) |-> range(n_lineages(nd, sorted[i]))]
    IN SelectSeq(product(ranges), LAMBDA config : ~(SumSeq(config) = n \/ SumSeq(config) = 0))

polymorphic_configs ==
    /\ status = "ok"
    /\ fn.op = "none"
    /\ fn' = [op |-> "polymorphic_configs", val |-> ConfigList(edges, attr)]
    /\ UNCHANGED <<opt, cr>>
    /\ UNCHANGED <<demoVars, likVars>>

InitConfigs ==
    /\ edges \in Graphs
    /\ attr \in [Nodes -> SampledLeafDicts]
    /\ \A v \in Nodes : out_degree(edges, v) > 0 => attr[v] = EmptyDict
    /\ cache = EmptyDict
    /\ status = "new"
    /\ last = [outcome |-> "none", nodes |-> {}]
    /\ NoSurface
    /\ NoAux

NextConfigs ==
    \/ Construct
    \/ polymorphic_configs

SpecConfigs == InitConfigs /\ [][NextConfigs]_vars

\* ------------------------------------------------------------- newick text
\* A newick text is modelled by the clade tree it denotes: a clade is a record
\* [name, comment, length, clades]; name and length are <<>> where the text has
\* none, comment is <<>> or <<d>> with d the dict of its momi fields, clades is the
\* sequence of child clades.  A clade of a parsed tree is identified by its path
\* from the root, the sequence of child positions.
\* A branch length is a float [d12, rest]: d12 its first 12 significant digits,
\* rest what follows them.

Lengths == {[d12 |-> 1, rest |-> 0], [d12 |-> 1, rest |-> 1]}

\* str(x) of a float: "%.12g"
str_float(x) == [d12 |-> x.d12, rest |-> 0]

NodeNames == <<"node0", "node1", "node2", "node3">>

FirstNodeName(i) == NodeNames[1]

\* "node%d" % i
NodeName(i) == NodeNames[i + 1]

\* an order on all the names
NameOrder == <<"a", "b", "c", "node0", "node1", "node2", "node3", "r", "root", "x", "y">>

Rank(n) == CHOOSE i \in 1..Len(NameOrder) : NameOrder[i] = n

Clade(name, comment, length, clades) ==
    [name |-> name, comment |-> comment, length |-> length, clades |-> clades]

RECURSIVE Sub(_, _)
Sub(t, p) == IF p = <<>> THEN t ELSE Sub(t.clades[Head(p)], Tail(p))

RECURSIVE Paths(_)
Paths(t) ==
    {<<>>} \cup UNION {{<<k>> \o p : p \in Paths(t.clades[k])} : k \in 1..Len(t.clades)}

\* _extract_momi_fields
extract_momi_fields(comment) == IF comment = <<>> THEN EmptyDict ELSE comment[1]

\* the paths of the children of the clade at p
ChildPaths(t, p) == [k \in 1..Len(Sub(t, p).clades) |-> p \o <<k>>]

\* lines 119-125: the loop over the children of the popped clade; every turn appends
\* all the children to the work list
RECURSIVE ChildLoop(_, _, _, _)
ChildLoop(t, p, k, w) ==
    IF k > Len(Sub(t, p).clades) THEN w
    ELSE LET c == p \o <<k>>
             fresh == w.names[c] = <<>>
             cname == IF fresh THEN <<NodeName(w.i)>> ELSE w.names[c]
         IN ChildLoop(t, p, k + 1,
                [w EXCEPT !.stack = w.stack \o ChildPaths(t, p),
                          !.names = [w.names EXCEPT ![c] = cname],
                          !.i = IF fresh THEN w.i + 1 ELSE w.i,
                          !.edges = SetKey(w.edges, <<w.names[p][1], cname[1]>>,
                                           Sub(t, c).length)])

\* add_nodes_from: the attribute dict of a node already there is updated
AddNode(nodes, n, nd) ==
    SetKey(nodes, n, IF n \in DOMAIN nodes THEN Merge(nodes[n], nd) ELSE nd)

\* lines 113-125: the loop over the work list
RECURSIVE WorkLoop(_, _, _)
WorkLoop(t, default_lineages, w) ==
    IF w.stack = <<>> THEN w
    ELSE LET p == w.stack[Len(w.stack)]
             nd == WithDefault(extract_momi_fields(Sub(t, p).comment), default_lineages)
             w1 == [w EXCEPT !.stack = SubSeq(w.stack, 1, Len(w.stack) - 1),
                             !.nodes = AddNode(w.nodes, w.names[p][1], nd),
                             !.taken = w.taken \cup {<<p, w.names[p]>>},
                             !.pops = w.pops + 1]
         IN WorkLoop(t, default_lineages, ChildLoop(t, p, 1, w1))

\* nx.DiGraph(data=edges); add_nodes_from(nodes)
EndNodes(es) == {e[1] : e \in DOMAIN es} \cup {e[2] : e \in DOMAIN es}

\* _newick_to_nx on the parsed tree t
newick_to_nx(t, default_lineages) ==
    LET names0 == [p \in Paths(t) |->
                      IF p = <<>> /\ t.name = <<>> THEN <<"root">> ELSE Sub(t, p).name]
        w == WorkLoop(t, default_lineages,
                 [stack |-> << <<>> >>, names |-> names0, i |-> 0, nodes |-> EmptyDict,
                  edges |-> EmptyDict, taken |-> {}, pops |-> 0])
    IN [nodes |-> [n \in EndNodes(w.edges) \cup DOMAIN w.nodes |->
                      IF n \in DOMAIN w.nodes THEN w.nodes[n] ELSE EmptyDict],
        edges |-> w.edges, names |-> w.names, taken |-> w.taken, pops |-> w.pops]

\* ------------------------------------------------------------- Demography and newick
\* A graph is [nodes, edges]: nodes the dict of the node attribute dicts, edges the
\* dict from <<parent, child>> to the edge's branch_length, <<l>> for the float l
\* (every edge of the graphs modelled has one).

Children(G, v) == {e[2] : e \in {f \in DOMAIN G.edges : f[1] = v}}

Parents(G, v) == {e[1] : e \in {f \in DOMAIN G.edges : f[2] = v}}

\* Demography.leaves
LeavesOf(G) == {v \in DOMAIN G.nodes : Children(G, v) = {}}

\* the candidates of Demography.root
RootsOf(G) == {v \in DOMAIN G.nodes : Parents(G, v) = {}}

\* list(S) in the iteration order of the dict: by rank, or by rank reversed
RECURSIVE ListOf(_, _)
ListOf(S, rev) ==
    IF S = {} THEN <<>>
    ELSE LET x == CHOOSE y \in S : \A z \in S :
                      IF rev THEN Rank(z) <= Rank(y) ELSE Rank(y) <= Rank(z)
         IN <<x>> \o ListOf(S \ {x}, rev)

\* Demography.__init__ and the loops of from_newick on the graph of _newick_to_nx
BuildFromGraph(G) ==
    IF ~(\A k \in LeavesOf(G) : "lineages" \in DOMAIN G.nodes[k])
    THEN [ok |-> FALSE, err |-> "Exception", G |-> G]
    ELSE IF \E e \in DOMAIN G.edges :
                "model" \in DOMAIN G.nodes[e[2]] /\ G.nodes[e[2]].model # "constant"
    THEN [ok |-> FALSE, err |-> "Exception", G |-> G]
    ELSE IF Cardinality(RootsOf(G)) # 1
    THEN [ok |-> FALSE, err |-> "AssertionError", G |-> G]
    ELSE [ok |-> TRUE, err |-> "none",
          G |-> [nodes |-> [v \in DOMAIN G.nodes |->
                               SetKey(G.nodes[v], "model", "ConstantTruncatedSizeHistory")],
                 edges |-> G.edges]]

\* Demography(G): the constructor alone
BuildDirect(G) ==
    IF ~(\A k \in LeavesOf(G) : "lineages" \in DOMAIN G.nodes[k])
    THEN [ok |-> FALSE, err |-> "Exception", G |-> G]
    ELSE [ok |-> TRUE, err |-> "none", G |-> G]

\* frames _to_newick may nest before Python's recursion limit stops it
RecursionLimit == 8

\* _to_newick(G, root); depth counts the frames left before the recursion limit
RECURSIVE to_newick_rec(_, _, _, _)
to_newick_rec(G, root, rev, depth) ==
    LET parent == ListOf(Parents(G, root), rev)
        edge_length == IF parent = <<>> THEN <<>>
                       ELSE <<str_float(G.edges[<<parent[1], root>>][1])>>
        children == ListOf(Children(G, root), rev)
    IN IF depth = 0 THEN [err |-> "RuntimeError", str |-> <<>>]
       ELSE IF children = <<>>
       THEN IF edge_length = <<>> THEN [err |-> "AssertionError", str |-> <<>>]
            ELSE [err |-> "none", str |-> <<Clade(<<root>>, <<>>, edge_length, <<>>)>>]
       ELSE IF Len(children) # 2 THEN [err |-> "AssertionError", str |-> <<>>]
       ELSE LET d1 == to_newick_rec(G, children[1], rev, depth - 1)
                d2 == to_newick_rec(G, children[2], rev, depth - 1)
            IN IF d1.err # "none" THEN d1
               ELSE IF d2.err # "none" THEN d2
               ELSE [err |-> "none",
                     str |-> <<Clade(<<>>, <<>>, edge_length, <<d1.str[1], d2.str[1]>>)>>]

\* Demography.to_newick: self.root asserts that there is one root
to_newick(G, rev) ==
    IF Cardinality(RootsOf(G)) # 1 THEN [err |-> "AssertionError", str |-> <<>>]
    ELSE to_newick_rec(G, CHOOSE v \in RootsOf(G) : TRUE, rev, RecursionLimit)

\* the comments of the leaves of a newick text
LeafComments ==
    {<<>>, <<[lineages |-> 1]>>, <<[lineages |-> 2, N |-> 2, derived |-> 1, ancestral |-> 1]>>}

LeafClades(names) ==
    {Clade(n, c, <<l>>, <<>>) : n \in names, c \in LeafComments, l \in Lengths}

LeafB == Clade(<<"b">>, <<[lineages |-> 1]>>, <<[d12 |-> 1, rest |-> 0]>>, <<>>)

\* ( x , y ) with or without a name for the root
CherryTexts ==
    {Clade(rn, <<>>, <<>>, <<x, y>>) :
        rn \in {<<>>, <<"r">>}, x \in LeafClades({<<"a">>}),
        y \in LeafClades({<<"b">>, <<"a">>})}

\* ( ( x , b ) , z ) with or without a name for the inner clade
CaterpillarTexts ==
    {Clade(<<>>, <<>>, <<>>, <<Clade(inner, <<>>, <<l>>, <<x, LeafB>>), z>>) :
        inner \in {<<>>, <<"x">>}, l \in Lengths, x \in LeafClades({<<"a">>}),
        z \in {Clade(n, <<[lineages |-> 1]>>, <<[d12 |-> 1, rest |-> 0]>>, <<>>) :
                  n \in {<<>>, <<"c">>, <<"node0">>}}}

\* ( x ) and ( x , b , c ): clades of one child and of three
OtherTexts ==
    {Clade(<<>>, <<>>, <<>>, <<x>>) : x \in LeafClades({<<>>, <<"a">>})}
    \cup {Clade(<<>>, <<>>, <<>>, <<x, LeafB, Clade(<<"c">>, <<>>, <<l>>, <<>>)>>) :
             x \in LeafClades({<<"a">>}), l \in Lengths}

BinaryTexts == CherryTexts \cup CaterpillarTexts

NewickTexts == BinaryTexts \cup OtherTexts

Leaf1 == [lineages |-> 1]

\* graphs handed to Demography(G): a cherry, a node of one child, a node of three,
\* a lone node, a leaf shared by two parents that each have two children, and a
\* cycle through two nodes that each have two children
DirectGraphs ==
    LET L1 == <<[d12 |-> 1, rest |-> 0]>>
        G(nodes, es) == [nodes |-> [n \in nodes |-> IF n \in {"a", "b", "c"} THEN Leaf1
                                                    ELSE EmptyDict],
                         edges |-> es]
    IN {G({"r", "a", "b"}, [e \in {<<"r", "a">>, <<"r", "b">>} |-> L1]),
        G({"r", "x", "a"}, [e \in {<<"r", "x">>, <<"x", "a">>} |-> L1]),
        G({"r", "a", "b", "c"}, [e \in {<<"r", "a">>, <<"r", "b">>, <<"r", "c">>} |-> L1]),
        [nodes |-> [n \in {"a"} |-> Leaf1], edges |-> EmptyDict],
        G({"r", "x", "y", "a", "b", "c"},
          [e \in {<<"r", "x">>, <<"r", "a">>, <<"x", "y">>, <<"x", "b">>,
                  <<"y", "x">>, <<"y", "c">>} |-> L1])}
    \cup {G({"r", "x", "y", "a", "b", "c"},
            [e \in {<<"r", "x">>, <<"r", "y">>, <<"x", "a">>, <<"x", "b">>,
                    <<"y", "b">>, <<"y", "c">>} |->
                IF e = <<"x", "b">> THEN <<l1>> ELSE IF e = <<"y", "b">> THEN <<l2>> ELSE L1]) :
             l1 \in Lengths, l2 \in Lengths}

NoDemo == [ok |-> FALSE, err |-> "none", G |-> [nodes |-> EmptyDict, edges |-> EmptyDict]]

NoText == [err |-> "none", str |-> <<>>]

\* Demography.from_newick(newick, default_lineages)
Demography_from_newick(newick, default_lineages) ==
    /\ fn.op = "none"
    /\ LET nx == newick_to_nx(newick, default_lineages)
       IN fn' = [op |-> "newick", pc |-> "built", newick |-> <<newick>>,
                 default_lineages |-> default_lineages, nx |-> <<nx>>,
                 d |-> BuildFromGraph([nodes |-> nx.nodes, edges |-> nx.edges]),
                 text |-> NoText, nx2 |-> <<>>, d2 |-> NoDemo]
    /\ UNCHANGED <<opt, cr>>
    /\ UNCHANGED <<demoVars, likVars>>

\* Demography(G)
Demography_init(G) ==
    /\ fn.op = "none"
    /\ fn' = [op |-> "newick", pc |-> "built", newick |-> <<>>, default_lineages |-> <<>>,
              nx |-> <<>>, d |-> BuildDirect(G), text |-> NoText, nx2 |-> <<>>, d2 |-> NoDemo]
    /\ UNCHANGED <<opt, cr>>
    /\ UNCHANGED <<demoVars, likVars>>

\* d.to_newick() on the Demography built
Demography_to_newick(rev) ==
    /\ fn.op = "newick" /\ fn.pc = "built" /\ fn.d.ok
    /\ fn' = [fn EXCEPT !.pc = "written", !.text = to_newick(fn.d.G, rev)]
    /\ UNCHANGED <<opt, cr>>
    /\ UNCHANGED <<demoVars, likVars>>

\* Demography.from_newick(text) on the text written
from_newick_again ==
    /\ fn.op = "newick" /\ fn.pc = "written" /\ fn.text.err = "none"
    /\ LET nx == newick_to_nx(fn.text.str[1], <<>>)
       IN fn' = [fn EXCEPT !.pc = "read", !.nx2 = <<nx>>,
                           !.d2 = BuildFromGraph([nodes |-> nx.nodes, edges |-> nx.edges])]
    /\ UNCHANGED <<opt, cr>>
    /\ UNCHANGED <<demoVars, likVars>>

NextNewickText ==
    \/ /\ fn.op = "none"
       /\ \E newick \in NewickTexts : \E dl \in {<<>>, <<1>>} :
              Demography_from_newick(newick, dl)
    \/ /\ fn.op = "none"
       /\ \E G \in DirectGraphs : Demography_init(G)
    \/ \E rev \in BOOLEAN : Demography_to_newick(rev)
    \/ from_newick_again

SpecNewickText == InitFn /\ [][NextNewickText]_vars

\* ------------------------------------------------------------- totalSfsSum
\* Demography.update_state(state) as a function of the node dicts nd and the cached
\* properties ch; the dict `state` is iterated in the order `order`
UpdateState(E, nd, ch, state, order) ==
    LET res == UpdateLoop(nd, state, order)
        cached == "n_derived_subtended_by" \in DOMAIN ch
    IN IF res.raised \/ (~cached /\ ~DerivedComputable(E, res.nd))
       THEN [nd |-> res.nd, cache |-> SetKey(ch, "node_data", TRUE), raised |-> TRUE]
       ELSE [nd |-> res.nd,
             cache |-> DelKey(DelKey(SetKey(ch, "leaves_subtended_by", leaves_subtended_by(E)),
                                     "n_derived_subtended_by"), "node_data"),
             raised |-> FALSE]

NoPrevState(E, nd) == <<>>

\* lines 154-160: the allele counts of the leaves, <<>> (None) when a leaf has none
PrevState(E, nd) ==
    IF \A v \in leaves(E) : {"ancestral", "derived"} \subseteq DOMAIN nd[v]
    THEN <<[v \in leaves(E) |-> [ancestral |-> nd[v].ancestral, derived |-> nd[v].derived]]>>
    ELSE <<>>

\* lines 165-169: all alleles ancestral
AllAncestral(E, nd) == [v \in leaves(E) |-> [derived |-> 0, ancestral |-> nd[v].lineages]]

\* lines 180-184: all alleles derived
AllDerived(E, nd) == [v \in leaves(E) |-> [derived |-> nd[v].lineages, ancestral |-> 0]]

\* SumProduct(demography) and its queries read the Demography; reads tells whether
\* they go through the cached property n_derived_subtended_by
SumProduct(E, nd, ch, reads) ==
    IF reads
    THEN SetKey(SetKey(SetKey(ch, "node_data", TRUE), "leaves_subtended_by",
                leaves_subtended_by(E)), "n_derived_subtended_by", n_derived_subtended_by(E, nd))
    ELSE SetKey(ch, "node_data", TRUE)

\* normalizing_constant(demography); raised when update_state(prev_state) raises
normalizing_constant(E, nd, ch, order, reads) ==
    LET prev_state == PrevState(E, nd)
        u1 == UpdateState(E, nd, SetKey(ch, "node_data", TRUE), AllAncestral(E, nd), order)
        c1 == SumProduct(E, u1.nd, u1.cache, reads)
        u2 == UpdateState(E, u1.nd, c1, AllDerived(E, u1.nd), order)
        c2 == SumProduct(E, u2.nd, u2.cache, reads)
    IN IF prev_state = <<>> THEN [nd |-> u2.nd, cache |-> c2, raised |-> FALSE]
       ELSE UpdateState(E, u2.nd, c2, prev_state[1], order)

\* what reading n_derived_subtended_by gives: the cached value, else the computed
\* one, else <<>> for the KeyError
ReadNDerived(E, nd, ch) ==
    IF "n_derived_subtended_by" \in DOMAIN ch THEN <<ch.n_derived_subtended_by>>
    ELSE IF DerivedComputable(E, nd) THEN <<n_derived_subtended_by(E, nd)>>
    ELSE <<>>

\* the first read of the cached property totalSfsSum
totalSfsSum(order, reads) ==
    /\ status = "ok"
    /\ "totalSfsSum" \notin DOMAIN cache
    /\ LET res == normalizing_constant(edges, attr, cache, order, reads)
       IN /\ attr' = res.nd
          /\ cache' = IF res.raised THEN res.cache ELSE SetKey(res.cache, "totalSfsSum", TRUE)
          /\ fn' = [op |-> "totalSfsSum", raised |-> res.raised,
                    before |-> attr, after |-> res.nd,
                    read_before |-> ReadNDerived(edges, attr, cache),
                    read_after |-> ReadNDerived(edges, res.nd, res.cache)]
    /\ UNCHANGED <<edges, status, last>>
    /\ UNCHANGED <<opt, cr>>
    /\ UNCHANGED likVars

\* the leaf states are set before totalSfsSum is first read
NextTotal ==
    \/ Construct
    \/ /\ fn.op = "none"
       /\ \E state \in UpdateStates(edges) : \E order \in Orders(DOMAIN state) :
              update_state(state, order)
    \/ \E order \in Orders(leaves(edges)) : \E reads \in BOOLEAN : totalSfsSum(order, reads)
    \/ read_n_derived_subtended_by

SpecTotal == Init /\ [][NextTotal]_vars

\* ------------------------------------------------------------- a shared Demography
\* Two evaluations use one Demography.  An evaluation sets its leaf state with
\* update_state, may compute totalSfsSum, and then reads the leaf counts and
\* n_derived_subtended_by, as the Sum-Product pass does.  The calls of
\* normalizing_constant to update_state are steps of their own, between which the
\* other evaluation may run.
Evals == {1, 2}

\* the leaf states an evaluation sets: counts that add up to the lineages
ObservedStates(E, nd) ==
    {st \in [leaves(E) -> StateDicts] :
        \A v \in leaves(E) : st[v].derived + st[v].ancestral = nd[v].lineages}

\* the evaluations between their update_state and their read, other than e
Exposed(e) ==
    {f \in Evals \ {e} : fn.pc[f] \in {"updated", "ancestral", "derived", "totaled"}}

\* a write of evaluation e to the shared Demography
Write(e, u, pc_next) ==
    /\ attr' = u.nd
    /\ cache' = u.cache
    /\ fn' = [fn EXCEPT !.pc[e] = IF u.raised THEN "failed" ELSE pc_next,
                        !.dirty = [f \in Evals |-> IF f \in Exposed(e) THEN TRUE ELSE @[f]]]
    /\ UNCHANGED <<edges, status, last>>
    /\ UNCHANGED <<opt, cr>>
    /\ UNCHANGED likVars

\* evaluation e calls update_state(state)
eval_update_state(e, state, order) ==
    /\ fn.op = "evals" /\ fn.pc[e] = "idle"
    /\ LET u == UpdateState(edges, attr, cache, state, order)
       IN /\ attr' = u.nd
          /\ cache' = u.cache
          /\ fn' = [fn EXCEPT !.pc[e] = IF u.raised THEN "failed" ELSE "updated",
                              !.set[e] = <<state>>,
                              !.dirty = [f \in Evals |->
                                            IF f \in Exposed(e) THEN TRUE ELSE @[f]]]
    /\ UNCHANGED <<edges, status, last>>
    /\ UNCHANGED <<opt, cr>>
    /\ UNCHANGED likVars

\* lines 154-170 of normalizing_constant, run by evaluation e
total_ancestral(e, order) ==
    /\ fn.op = "evals" /\ fn.pc[e] = "updated"
    /\ "totalSfsSum" \notin DOMAIN cache
    /\ LET u == UpdateState(edges, attr, SetKey(cache, "node_data", TRUE),
                            AllAncestral(edges, attr), order)
       IN /\ attr' = u.nd
          /\ cache' = u.cache
          /\ fn' = [fn EXCEPT !.pc[e] = IF u.raised THEN "failed" ELSE "ancestral",
                              !.prev[e] = PrevState(edges, attr),
                              !.dirty = [f \in Evals |->
                                            IF f \in Exposed(e) THEN TRUE ELSE @[f]]]
    /\ UNCHANGED <<edges, status, last>>
    /\ UNCHANGED <<opt, cr>>
    /\ UNCHANGED likVars

\* lines 172-185
total_derived(e, order, reads) ==
    /\ fn.op = "evals" /\ fn.pc[e] = "ancestral"
    /\ Write(e, UpdateState(edges, attr, SumProduct(edges, attr, cache, reads),
                            AllDerived(edges, attr), order), "derived")

\* lines 187-194 and the storing of the cached property
total_reset(e, order, reads) ==
    /\ fn.op = "evals" /\ fn.pc[e] = "derived"
    /\ LET c2 == SumProduct(edges, attr, cache, reads)
           u == IF fn.prev[e] = <<>> THEN [nd |-> attr, cache |-> c2, raised |-> FALSE]
                ELSE UpdateState(edges, attr, c2, fn.prev[e][1], order)
       IN Write(e, [nd |-> u.nd, raised |-> u.raised,
                    cache |-> IF u.raised THEN u.cache
                              ELSE SetKey(u.cache, "totalSfsSum", TRUE)], "totaled")

\* the leaf allele counts an evaluation reads
LeafState(E, nd) ==
    [v \in leaves(E) |-> [k \in (DOMAIN nd[v]) \cap {"derived", "ancestral"} |-> nd[v][k]]]

\* evaluation e reads the leaf counts and n_derived_subtended_by
eval_read(e) ==
    /\ fn.op = "evals" /\ fn.pc[e] \in {"updated", "totaled"}
    /\ cache' = SumProduct(edges, attr, cache, TRUE)
    /\ fn' = [fn EXCEPT !.pc[e] = "read",
                        !.got[e] = <<[leaf |-> LeafState(edges, attr),
                                      n_derived |-> ReadNDerived(edges, attr, cache)]>>]
    /\ UNCHANGED <<edges, attr, status, last>>
    /\ UNCHANGED <<opt, cr>>
    /\ UNCHANGED likVars

\* a Demography built from the tree r -> (a, b), every leaf with n lineages
InitShared ==
    /\ edges = Tree
    /\ \E n \in 1..MaxN :
           attr = [v \in Nodes |-> IF v = "r" THEN EmptyDict ELSE [lineages |-> n]]
    /\ cache = [node_data |-> TRUE, leaves |-> leaves(edges)]
    /\ status = "ok"
    /\ last = [outcome |-> "none", nodes |-> {}]
    /\ NoSurface
    /\ opt = [pc |-> "none"] /\ cr = [pc |-> "none"]
    /\ fn = [op |-> "evals", pc |-> [e \in Evals |-> "idle"], set |-> [e \in Evals |-> <<>>],
             prev |-> [e \in Evals |-> <<>>], got |-> [e \in Evals |-> <<>>],
             dirty |-> [e \in Evals |-> FALSE]]

NextShared ==
    \/ \E e \in Evals : \E order \in Orders(leaves(edges)) :
       \E state \in ObservedStates(edges, attr) : eval_update_state(e, state, order)
    \/ \E e \in Evals : \E order \in Orders(leaves(edges)) : total_ancestral(e, order)
    \/ \E e \in Evals : \E order \in Orders(leaves(edges)) : \E reads \in BOOLEAN :
           total_derived(e, order, reads)
    \/ \E e \in Evals : \E order \in Orders(leaves(edges)) : \E reads \in BOOLEAN :
           total_reset(e, order, reads)
    \/ \E e \in Evals : eval_read(e)

SpecShared == InitShared /\ [][NextShared]_vars

\* ------------------------------------------------------------- rearrange_gradient, forward calls
\* bound: the forward calls of the wrapped function the model follows
MaxCalls == 2

\* the inputs x of the forward calls
GradInputs == {<<0, 1>>, <<1, 0>>, <<1, 1>>}

\* the wrapped subroutine, here x[1]^2 + x[1]*x[2]
subroutine(x) == x[1] * x[1] + x[1] * x[2]

\* its gradient at x
subroutine_grad(x) == <<2 * x[1] + x[2], x[1]>>

\* line 228: autograd.value_and_grad(subroutine)(x), one evaluation giving <<fx, gx>>
value_and_grad(x) == <<subroutine(x), subroutine_grad(x)>>

\* the gradient stored by the first forward call
UnpackFirst(heap, id) ==
    IF Len(heap[1]) = 1 THEN [err |-> "none", gx |-> heap[1][1]]
    ELSE [err |-> "ValueError", gx |-> <<>>]

\* line 219: gx, = gx_container, on the list `id` of the heap
Unpack(heap, id) ==
    IF Len(heap[id]) = 1 THEN [err |-> "none", gx |-> heap[id][1]]
    ELSE [err |-> "ValueError", gx |-> <<>>]

\* the wrapped function before its first call: no list made, nothing evaluated
NoCalls == [op |-> "rearranged", heap |-> <<>>, calls |-> <<>>, evals |-> <<>>,
            back |-> [call |-> 0]]

\* lines 225-236: outer_fun(x) under differentiation.  Line 236 makes the list [],
\* line 228 evaluates the subroutine, line 229 appends gx to the list, line 230
\* returns fx, and inner_gradmaker (lines 218-219) takes gx out of the list
outer_fun(x) ==
    /\ fn.op \in {"none", "rearranged"}
    /\ LET me == IF fn.op = "none" THEN NoCalls ELSE fn
           id == Len(me.heap) + 1                          \* line 236: a new list
           vg == value_and_grad(x)                          \* line 228
           heap == Append(me.heap, Append(<<>>, vg[2]))     \* line 229
           made == Unpack(heap, id)                         \* line 219
       IN /\ Len(me.calls) < MaxCalls
          /\ fn' = [me EXCEPT !.heap = heap,
                              !.evals = Append(me.evals, x),
                              !.calls = Append(me.calls,
                                               [x |-> x, container |-> id, fx |-> vg[1],
                                                err |-> made.err, gx |-> made.gx])]
    /\ UNCHANGED <<opt, cr>>
    /\ UNCHANGED <<demoVars, likVars>>

\* lines 220-223: the reverse pass calls the inner_grad made by forward call i, with
\* the tapes of x as they are then
inner_grad_of(i, tapes, g) ==
    /\ fn.op = "rearranged"
    /\ i \in 1..Len(fn.calls)
    /\ fn.calls[i].err = "none"
    /\ LET r == inner_grad(tapes, fn.calls[i].gx, g)
       IN fn' = [fn EXCEPT !.back = [call |-> i, tapes |-> tapes, g |-> g,
                                     err |-> r.err, val |-> r.val]]
    /\ UNCHANGED <<opt, cr>>
    /\ UNCHANGED <<demoVars, likVars>>

NextRearranged ==
    \/ \E x \in GradInputs : outer_fun(x)
    \/ \E i \in 1..MaxCalls : \E tapes \in SeqsOf(BOOLEAN, 0, MaxTapes) :
       \E g \in GradVals : inner_grad_of(i, tapes, g)

SpecRearranged == InitFn /\ [][NextRearranged]_vars

\* ------------------------------------------------------------- find_optimum and the logger
\* logging.NOTSET and logging.INFO
NOTSET == 0

INFO == 20

\* the levels a logger can have when find_optimum is called: NOTSET, DEBUG, INFO, WARNING
Levels == {NOTSET, 10, INFO, 30}

\* the module's logger as find_optimum finds it: its own level, its propagate flag,
\* its handlers, and the effective level of its parent (the root logger's WARNING)
Loggers ==
    [level : Levels, propagate : BOOLEAN, handlers : {{}, {"stderr"}},
     parent_level : {30}]

\* the log_file argument: None, or a stream
LogFiles == {<<>>, <<"stream">>}

\* logging.Logger.getEffectiveLevel
getEffectiveLevel(lg) == IF lg.level # NOTSET THEN lg.level ELSE lg.parent_level

\* line 67: log_file is not None
LogFileGiven(log_file) == log_file # <<>>

\* line 71: logging.StreamHandler(log_file), a new handler object
StreamHandler(log_file) == <<"StreamHandler", log_file[1]>>

\* lines 67-72: what find_optimum does to the logger before the try block, as
\* [logger, log_file, prev]; log_file is bound anew to the handler at line 71
SetUpLogger(lg, log_file) ==
    IF LogFileGiven(log_file)
    THEN LET eff == getEffectiveLevel(lg)
             hdlr == StreamHandler(log_file)
         IN [logger |-> [lg EXCEPT !.propagate = FALSE,
                                   !.level = Min(eff, INFO),
                                   !.handlers = lg.handlers \cup {hdlr}],
             log_file |-> <<hdlr>>,
             prev |-> <<lg.level, lg.propagate>>]
    ELSE [logger |-> lg, log_file |-> log_file, prev |-> <<>>]

\* the finally block never finds a log_file
LogFileNeverTruthy(log_file) == FALSE

\* line 87: if log_file, on None or on the handler of line 71
LogFileTruthy(log_file) == log_file # <<>>

\* lines 86-89: the finally block
RestoreLogger(lg, log_file, prev) ==
    IF LogFileTruthy(log_file)
    THEN [lg EXCEPT !.handlers = lg.handlers \ {log_file[1]},
                    !.propagate = prev[2],
                    !.level = prev[1]]
    ELSE lg

\* lines 66-72: find_optimum is entered with the logger in state lg
find_optimum_setup(log_file, lg) ==
    /\ fn.op = "none"
    /\ lpc = "ready"
    /\ opt.pc = "none"
    /\ LET s == SetUpLogger(lg, log_file)
       IN fn' = [op |-> "find_optimum", pc |-> "try", given |-> LogFileGiven(log_file),
                 before |-> lg, during |-> s.logger, logger |-> s.logger,
                 log_file |-> s.log_file, prev |-> s.prev]
    /\ UNCHANGED <<opt, cr>>
    /\ UNCHANGED <<demoVars, likVars>>

\* lines 86-89: the try block has returned or raised, the finally block runs and the
\* call ends the way the try block did
find_optimum_finally ==
    /\ fn.op = "find_optimum"
    /\ fn.pc = "try"
    /\ opt.pc \in {"returned", "raised"}
    /\ fn' = [fn EXCEPT !.pc = opt.pc,
                        !.logger = RestoreLogger(fn.logger, fn.log_file, fn.prev)]
    /\ UNCHANGED <<opt, cr>>
    /\ UNCHANGED <<demoVars, likVars>>

\* bounds: the subsample steps of the calls whose logger is followed, and the
\* configurations of their surface
MaxLoggedSteps == 1

MaxLoggedLen == 1

LoggedKwargs ==
    {kwargs \in Kwargs :
        "subsample_steps" \in DOMAIN kwargs => kwargs.subsample_steps[1] <= MaxLoggedSteps}

\* a call of find_optimum on a built surface, with its logger: lines 66-72, the try
\* block of lines 73-85 with newton or adam, and the finally block
NextLogger ==
    \/ /\ fn.op = "none"
       /\ \E log_file \in LogFiles : \E lg \in Loggers : find_optimum_setup(log_file, lg)
    \/ /\ fn.op = "find_optimum"
       /\ opt.pc = "none"
       /\ \E x0 \in StartPoints : \E method \in Methods : \E kwargs \in LoggedKwargs :
          \E out \in OptimizerOutcomes : find_optimum(x0, method, kwargs, out)
    \/ /\ fn.op = "find_optimum"
       /\ \E draw \in [1..Len(sfs) -> 0..MaxCount] \X [1..Len(sfs) -> 0..MaxCount] :
          \E out \in OptimizerOutcomes : newton_step(draw, out)
    \/ /\ fn.op = "find_optimum"
       /\ \E out \in OptimizerOutcomes : newton_fit(out)
    \/ find_optimum_finally

\* a surface as lines 15-31 and 171-172 build it: every configuration seen once,
\* all of them in one batch
InitLogger ==
    /\ NoDemography
    /\ sfs \in {data \in SfsOfLen(MaxLoggedLen) :
                   \A i \in 1..Len(data) :
                       /\ data[i].count = 1
                       /\ data[i].config = <<Config1, Config2, Config3, Config4, Config5>>[i]}
    /\ batch_size = MaxBatchNum
    /\ Len(sfs) * BatchDenom <= batch_size
    /\ mut_rate = <<>>
    /\ sfs_batches = <<sfs>> /\ lpc = "ready" /\ prev_idx = 0 /\ next_idx = 0 /\ slices = <<>>
    /\ ret = [op |-> "none"]
    /\ NoAux

SpecLogger == InitLogger /\ [][NextLogger]_vars

\* ------------------------------------------------------------- claims C1-C5
HasAlleleState(ndn) == {"lineages", "derived", "ancestral"} \subseteq DOMAIN ndn

\* C1: in every state of a constructed Demography, whatever update_state calls
\* returned or raised before, every leaf that has derived and ancestral counts
\* has derived + ancestral = lineages.
C1_AdditiveInvariant ==
    status = "ok" =>
        \A l \in leaves(edges) :
            HasAlleleState(attr[l]) => attr[l].lineages = attr[l].derived + attr[l].ancestral

\* C2: update_state returns normally only if every node named in `state` has,
\* after the merge, lineages = derived + ancestral; so it raises whenever some
\* named node does not.
C2_ReturnsOnlyIfAddsUp ==
    last.outcome = "returned" =>
        \A n \in last.nodes :
            /\ HasAlleleState(attr[n])
            /\ attr[n].lineages = attr[n].derived + attr[n].ancestral

\* C2 witness: an update_state call that named a node whose merged counts do not
\* add up, and raised.
C2_Witness ==
    /\ last.outcome = "raised"
    /\ \E n \in last.nodes :
           HasAlleleState(attr[n]) /\ attr[n].lineages # attr[n].derived + attr[n].ancestral

\* C3: between operations every cached aggregate equals the value recomputed from
\* the current node attributes.
C3_CachedAggregatesCurrent ==
    status = "ok" =>
        /\ "n_derived_subtended_by" \in DOMAIN cache =>
               cache.n_derived_subtended_by = n_derived_subtended_by(edges, attr)
        /\ "n_lineages_subtended_by" \in DOMAIN cache =>
               cache.n_lineages_subtended_by = n_lineages_subtended_by(edges, attr)
        /\ "leaves_subtended_by" \in DOMAIN cache =>
               cache.leaves_subtended_by = leaves_subtended_by(edges)

\* C4: a Demography over a graph without exactly one node of in-degree 0 is never
\* constructed: the constructor fails on it.
C4_RootCheckedAtConstruction ==
    status = "ok" => Cardinality(RootCandidates(edges)) = 1

\* C5: from_newick fails whenever some node of the tree, the root included,
\* carries a model field other than "constant".
C5_AnyOtherModelFails ==
    [][(/\ status = "new"
        /\ \E v \in Nodes : "model" \in DOMAIN attr[v] /\ attr[v].model # "constant")
       => status' # "ok"]_vars

\* ------------------------------------------------------------- claims C6-C10
\* the batches were built from more configurations than batch_size
Batched == lpc = "ready" /\ Len(sfs) * BatchDenom > batch_size

\* the count batch b carries for configuration c
CountIn(b, c) ==
    SumOver({k \in 1..Len(sfs_batches[b]) : sfs_batches[b][k].config = c},
            [k \in 1..Len(sfs_batches[b]) |-> sfs_batches[b][k].count])

BatchesWith(c) ==
    {b \in 1..Len(sfs_batches) : \E k \in 1..Len(sfs_batches[b]) : sfs_batches[b][k].config = c}

\* sum over the observed configurations of count x log(max(probability, truncate_probs))
WholeSum(x) ==
    SumOver(1..Len(sfs), [i \in 1..Len(sfs) |->
        sfs[i].count * (log(Max(expected_sfs(x, sfs[i].config), truncate_probs)) - log(ProbScale))])

\* C6: log_likelihood returns the sum over all observed configurations of
\* count x log(max(expected_probability, truncate_probs)) (plus the Poisson term of
\* a non-zero mutation rate), whatever the batches are: the result does not depend
\* on batch_size.
C6_SumOverBatches ==
    (ret.op = "log_likelihood" /\ ret.err = "none") =>
        ret.val = WholeSum(ret.x)
                  + (IF Truthy(mut_rate) THEN mut_factor(sfs, ret.x, mut_rate[1]).val ELSE 0)

\* C6 witness: log_likelihood returned on a surface of several batches.
C6_Witness ==
    ret.op = "log_likelihood" /\ ret.err = "none" /\ Len(sfs_batches) >= 2

\* every batch has at most batch_size configurations, and every configuration's
\* count is in exactly one batch
BatchesPartition ==
    /\ \A b \in 1..Len(sfs_batches) :
           /\ Len(sfs_batches[b]) * BatchDenom <= batch_size
           /\ \A k \in 1..Len(sfs_batches[b]) : sfs_batches[b][k].count # 0
    /\ \A i \in 1..Len(sfs) :
           /\ Cardinality(BatchesWith(sfs[i].config)) = 1
           /\ \A b \in BatchesWith(sfs[i].config) : CountIn(b, sfs[i].config) = sfs[i].count

\* C7 as claimed: with more configurations than batch_size, _build_sfs_batches
\* returns ceil(len / batch_size) batches of at most batch_size configurations
\* each, every configuration's count in exactly one batch.
C7_CeilOfBatchSize ==
    Batched =>
        /\ Len(sfs_batches) = CeilDiv(Len(sfs) * BatchDenom, batch_size)
        /\ BatchesPartition

\* C7 amended: with more configurations than batch_size, _build_sfs_batches
\* returns ceil(len / int(batch_size)) batches of at most batch_size
\* configurations each, every configuration's count in exactly one batch.
C7_CeilOfIntBatchSize ==
    Batched =>
        /\ Len(sfs_batches) = CeilDiv(Len(sfs), IntBatchSize)
        /\ BatchesPartition

\* C7 witness: batches built for a batch_size that is not a whole number.
C7_Witness ==
    Batched /\ Len(sfs_batches) >= 2 /\ batch_size % BatchDenom # 0

\* configurations i and j of the SFS are folded copies of each other
FoldedCopies(i, j) ==
    /\ i # j
    /\ ancestral_counts(sfs[i].config) = derived_counts(sfs[j].config)
    /\ derived_counts(sfs[i].config) = ancestral_counts(sfs[j].config)

C9_MutRateWithMissingData ==
    (ret.op \in {"log_likelihood", "_composite_log_likelihood"} /\ mut_rate # <<>>) =>
        IF has_missing_data(sfs)
        THEN ret.err = "NotImplementedError"
        ELSE /\ ret.err = "none"
             /\ ret.val = WholeSum(ret.x) + mut_factor(sfs, ret.x, mut_rate[1]).val

\* C10: kl_divergence returns no negative value, and it does not fail on a value
\* that is negative only within the rounding error.
C10_TolerantNonNegative ==
    ret.op = "kl_divergence" =>
        /\ ret.err = "none" => ret.val >= 0
        /\ ret.computed >= 0 - RoundErr => ret.err # "AssertionError"

\* the data and arguments of a surface whose batches are studied
InitBatch ==
    /\ edges = {} /\ attr = EmptyDict /\ cache = EmptyDict /\ status = "none"
    /\ last = [outcome |-> "none", nodes |-> {}]
    /\ sfs \in SfsOfLen(MaxLen)
    /\ batch_size \in 1..MaxBatchNum
    /\ mut_rate = <<>>
    /\ sfs_batches = <<>> /\ lpc = "new" /\ prev_idx = 0 /\ next_idx = 0 /\ slices = <<>>
    /\ ret = [op |-> "none"]
    /\ NoAux

NextBatch ==
    \/ SfsLikelihoodSurface_init
    \/ slice_loop
    \/ build_batches

SpecBatch == InitBatch /\ [][NextBatch]_vars

\* the data and arguments of a surface on which calls are made
InitLik ==
    /\ edges = {} /\ attr = EmptyDict /\ cache = EmptyDict /\ status = "none"
    /\ last = [outcome |-> "none", nodes |-> {}]
    /\ sfs \in SfsOfLen(MaxLikLen)
    /\ batch_size \in 1..MaxBatchNum
    /\ mut_rate \in MutRates
    /\ sfs_batches = <<>> /\ lpc = "new" /\ prev_idx = 0 /\ next_idx = 0 /\ slices = <<>>
    /\ ret = [op |-> "none"]
    /\ NoAux

NextLik ==
    \/ SfsLikelihoodSurface_init
    \/ slice_loop
    \/ build_batches
    \/ \E x \in Params : log_likelihood(x)
    \/ \E x \in Params : composite_log_likelihood(x)
    \/ \E x \in Params : \E exact \in 0..MaxExact : \E rounding \in (0 - RoundErr)..RoundErr :
           kl_divergence(x, exact, rounding)

SpecLik == InitLik /\ [][NextLik]_vars

\* ------------------------------------------------------------- claims C11-C13
\* C11: find_optimum with method "adam" fails without calling the stochastic
\* optimizer when n_chunks is not among the arguments or is None, and with a method
\* other than "newton" and "adam" it fails without calling any optimizer.
C11_AdamNeedsChunks ==
    opt.pc # "none" =>
        /\ (opt.method = "adam" /\ ("n_chunks" \notin DOMAIN opt.kwargs \/ opt.kwargs.n_chunks = <<>>))
               => (opt.pc = "raised" /\ opt.calls = <<>>)
        /\ opt.method \notin {"newton", "adam"} => (opt.pc = "raised" /\ opt.calls = <<>>)

\* C11 witness: on a surface of one batch, adam was asked for with n_chunks=None and
\* the call failed with the error of _sgd_composite_lik.
C11_Witness ==
    /\ opt.pc = "raised" /\ opt.method = "adam" /\ Len(sfs_batches) = 1
    /\ "n_chunks" \in DOMAIN opt.kwargs /\ opt.kwargs.n_chunks = <<>>
    /\ opt.err = "ValueError"

\* the calls of _minimize on a subsample, and those on the full data
LadderCalls == SelectSeq(opt.calls, LAMBDA c : c.pden # 1)

FullCalls == SelectSeq(opt.calls, LAMBDA c : c.pden = 1)

\* the turns of the loop that were not skipped
FittedTurns == SelectSeq(opt.log, LAMBDA e : e.called)

InNewton == opt.pc # "none" /\ opt.method = "newton" /\ opt.err # "TypeError"

\* C12: with subsample_steps = k >= 1 the turns of the ladder use the fractions
\* 2^-k, ..., 2^-1 in this order; every fit starts from the solution of the fit
\* before it, the first from the caller's x0; the fit on the full data runs once,
\* after all turns; and subsample_results lists the fitted turns in order, then one
\* entry with p = 1.
C12_LadderOrder ==
    (InNewton /\ opt.steps >= 1) =>
        /\ Len(opt.log) <= opt.steps
        /\ \A i \in 1..Len(opt.log) : opt.log[i].pden = Pow2(opt.steps - i + 1)
        /\ \A i, j \in 1..Len(opt.log) : i < j => opt.log[i].pden > opt.log[j].pden
        /\ \A i \in 1..Len(opt.calls) :
               opt.calls[i].start = IF i = 1 THEN opt.given ELSE opt.calls[i - 1].out[1]
        /\ Len(LadderCalls) = Len(FittedTurns)
        /\ \A i \in 1..Len(LadderCalls) : LadderCalls[i].pden = FittedTurns[i].pden
        /\ Len(FullCalls) <= 1
        /\ FullCalls # <<>> => (Len(opt.log) = opt.steps /\ opt.calls[Len(opt.calls)].pden = 1)
        /\ opt.pc = "returned" =>
               /\ Len(FullCalls) = 1
               /\ Len(opt.results) = Len(opt.calls)
               /\ \A i \in 1..Len(opt.calls) :
                      /\ opt.results[i].pden = opt.calls[i].pden
                      /\ opt.results[i].x = opt.calls[i].out[1]
               /\ opt.results[Len(opt.results)].pden = 1

\* C12 witness: newton returned from a ladder of two turns, both fitted.
C12_Witness ==
    /\ InNewton /\ opt.pc = "returned" /\ opt.steps = 2
    /\ Len(FittedTurns) = 2

\* C13: a turn whose training or validation subsample has total count 0 is
\* skipped without raising: no optimizer call and no entry of subsample_results
\* for it, the start point is the same for the next fit, and the remaining turns
\* and the fit on the full data still run.
C13_EmptySubsampleSkipped ==
    InNewton =>
        /\ \A i \in 1..Len(opt.log) :
               (~opt.log[i].train \/ ~opt.log[i].valid) =>
                   /\ \A j \in 1..Len(opt.calls) : opt.calls[j].pden # opt.log[i].pden
                   /\ \A j \in 1..Len(opt.results) : opt.results[j].pden # opt.log[i].pden
                   /\ i < Len(opt.log) => opt.log[i + 1].start = opt.log[i].start
                   /\ (i = Len(opt.log) /\ FullCalls # <<>>) => FullCalls[1].start = opt.log[i].start
                   /\ (i = Len(opt.log) /\ opt.pc = "raised") => FullCalls # <<>>
        /\ opt.pc = "returned" => (Len(opt.log) = opt.steps /\ Len(FullCalls) = 1)

\* C13 witness: newton returned from a ladder with a skipped turn after a fitted one.
C13_Witness ==
    /\ InNewton /\ opt.pc = "returned" /\ opt.steps = 2
    /\ opt.log[1].called /\ ~opt.log[2].called

\* ------------------------------------------------------------- claim C14
\* C14: the backward function raises NotImplementedError and returns no gradient
\* whenever some tape of its input is not complete, and returns g times the stored
\* gradient only when every tape is complete.
C14_NoSecondOrder ==
    fn.op = "inner_grad" =>
        IF \E i \in 1..Len(fn.tapes) : ~fn.tapes[i]
        THEN fn.err = "NotImplementedError" /\ fn.val = <<>>
        ELSE /\ fn.err = "none"
             /\ Len(fn.val) = Len(fn.gx)
             /\ \A i \in 1..Len(fn.gx) : fn.val[i] = fn.g * fn.gx[i]

\* C14 witness: a backward call with one complete and one incomplete tape.
C14_Witness ==
    /\ fn.op = "inner_grad" /\ Len(fn.tapes) = 2
    /\ fn.tapes[1] /\ ~fn.tapes[2]
    /\ fn.err = "NotImplementedError"

\* ------------------------------------------------------------- claim C15
\* the computations of instance i that completed for calls of the form `form`
CompletedRuns(i, form) ==
    IF MemoKey(form) \in DOMAIN cr.inst[i].done THEN cr.inst[i].done[MemoKey(form)] ELSE 0

\* the computations of instance i that completed with inverse = v
CompletedRunsFor(i, v) ==
    SumOver({form \in CallForms : InverseOf(form) = v},
            [form \in CallForms |-> CompletedRuns(i, form)])

\* nothing is computed by the constructor, and a call returns the Godambe
\* information of the instance it is made on, for the value of inverse it is made with
LazyAndOwn ==
    /\ (cr.call.op = "init" /\ cr.call.err = "none") =>
           /\ cr.inst[cr.call.inst].memo = EmptyDict
           /\ cr.inst[cr.call.inst].done = EmptyDict
           /\ cr.inst[cr.call.inst].failed = 0
    /\ (cr.call.op = "godambe" /\ cr.call.err = "none") =>
           cr.call.val = Sandwich(cr.inst[cr.call.inst].fisher, cr.inst[cr.call.inst].score_cov,
                                  InverseOf(cr.call.form)).val

\* C15 as claimed: the Godambe information is not computed at construction; on one
\* instance the computation runs at most once per value of inverse; a call returns
\* the result of its own instance.
C15_OncePerInverseValue ==
    /\ LazyAndOwn
    /\ \A i \in Instances : cr.inst[i].built =>
           \A v \in BOOLEAN : CompletedRunsFor(i, v) <= 1

\* C15 amended: the Godambe information is not computed at construction; on one
\* instance the computation completes at most once per form of call (positional
\* arguments and keyword arguments: godambe(), godambe(False) and
\* godambe(inverse=False) are three forms), its result is stored and returned to
\* every later call of that form; a computation that raises stores nothing; a call
\* returns the result of its own instance.
C15_OncePerCallForm ==
    /\ LazyAndOwn
    /\ \A i \in Instances : cr.inst[i].built =>
           /\ \A form \in CallForms : CompletedRuns(i, form) <= 1
           /\ DOMAIN cr.inst[i].memo = DOMAIN cr.inst[i].done
           /\ cr.inst[i].failed > 0 => cr.inst[i].memo = EmptyDict

\* C15 witness: two instances of different data, the first with a stored result
\* for godambe() and one for godambe(inverse=False), the second with one for
\* godambe(inverse=True), and the last call made on the second.
C15_Witness ==
    /\ cr.inst[1].built /\ cr.inst[2].built
    /\ cr.inst[1].fisher # cr.inst[2].fisher
    /\ {MemoKey(<< <<>>, {} >>), MemoKey(<< <<>>, {<<"inverse", FALSE>>} >>)} \subseteq DOMAIN cr.inst[1].memo
    /\ MemoKey(<< <<>>, {<<"inverse", TRUE>>} >>) \in DOMAIN cr.inst[2].memo
    /\ cr.call.op = "godambe" /\ cr.call.inst = 2 /\ cr.call.err = "none"

\* ------------------------------------------------------------- claim C18
\* C18: every MLE _project_scores returns is 0 in every coordinate whose cone
\* entry is 0, for every cone and every init_vals; with every coordinate fixed the
\* likelihood values are all 0; the function calls itself at most once.
C18_FixedCoordinatesZero ==
    fn.op = "_project_scores" =>
        /\ \A k \in 1..Len(fn.mles) : \A j \in 1..Len(fn.cone) :
               fn.cone[j] = <<0>> => fn.mles[k][j] = 0
        /\ (\A j \in 1..Len(fn.cone) : fn.cone[j] = <<0>>) =>
               \A k \in 1..Len(fn.liks) : fn.liks[k] = 0
        /\ fn.depth <= 1

\* ------------------------------------------------------------- claims C16, C17
\* C16: test with test_type "wald" raises NotImplementedError whenever some
\* null_cone entry is not 0 or some alt_cone entry is not None, and returns p-values
\* only when the null cone is entirely fixed and the alternative cone entirely
\* unconstrained; a test_type other than "ratio" and "wald" raises NotImplementedError.
C16_WaldOnlySimple ==
    cr.call.op = "test" =>
        /\ cr.call.test_type = "wald" =>
               /\ ((\E j \in ParamIdx : cr.call.null_cone[j] # <<0>>)
                       \/ (\E j \in ParamIdx : cr.call.alt_cone[j] # <<>>))
                      => cr.call.err = "NotImplementedError"
               /\ cr.call.err = "none" =>
                      /\ \A j \in ParamIdx : cr.call.null_cone[j] = <<0>>
                      /\ \A j \in ParamIdx : cr.call.alt_cone[j] = <<>>
                      /\ Len(cr.call.val) = cr.call.tests
        /\ cr.call.test_type \notin {"ratio", "wald"} => cr.call.err = "NotImplementedError"

\* C16 witness: a Wald test refused for a null cone with one fixed and one free entry.
C16_Witness ==
    /\ cr.call.op = "test" /\ cr.call.test_type = "wald"
    /\ cr.call.null_cone[1] = <<0>> /\ cr.call.null_cone[2] = <<>>
    /\ \A j \in ParamIdx : cr.call.alt_cone[j] = <<>>
    /\ cr.call.err = "NotImplementedError"

\* the number of simulated statistics s with lr_distn[k] in relation to lr
Below(h) == Cardinality({k \in 1..cr.call.draws : cr.call.lr_distn[k] < cr.call.lr[h]})

Equal(h) == Cardinality({k \in 1..cr.call.draws : cr.call.lr_distn[k] = cr.call.lr[h]})

Above(h) == Cardinality({k \in 1..cr.call.draws : cr.call.lr_distn[k] > cr.call.lr[h]})

\* C17: a "ratio" test returns one row per hypothesis; with p_only=False the row
\* holds the fraction of simulated statistics strictly below the observed one, the
\* fraction equal to it and the fraction strictly above it, in this order, and the
\* three sum to 1; with p_only=True it holds the first of the three only.
C17_RatioRows ==
    (cr.call.op = "test" /\ cr.call.test_type = "ratio") =>
        /\ cr.call.err = "none"
        /\ Len(cr.call.val) = cr.call.tests
        /\ \A h \in 1..cr.call.tests :
               /\ Below(h) + Equal(h) + Above(h) = cr.call.draws
               /\ IF cr.call.p_only
                  THEN cr.call.val[h] = << <<Below(h), cr.call.draws>> >>
                  ELSE /\ cr.call.val[h] = << <<Below(h), cr.call.draws>>,
                                              <<Equal(h), cr.call.draws>>,
                                              <<Above(h), cr.call.draws>> >>
                       /\ cr.call.val[h][1][1] + cr.call.val[h][2][1] + cr.call.val[h][3][1]
                              = cr.call.val[h][1][2]

\* C17 witness: a "ratio" test of two hypotheses with p_only=False, one of whose
\* rows has a simulated statistic below the observed one and one equal to it.
C17_Witness ==
    /\ cr.call.op = "test" /\ cr.call.test_type = "ratio" /\ cr.call.err = "none"
    /\ cr.call.tests = 2 /\ ~cr.call.p_only
    /\ \E h \in 1..2 : cr.call.val[h][1][1] >= 1 /\ cr.call.val[h][2][1] >= 1

\* some negative entry of slice s is larger in magnitude than 1e-13 times the
\* largest entry of s, the latter taken as 1e-300 when it is smaller
Exceeds(s) ==
    \E ij \in s :
        /\ fn.x[ij].m < 0
        /\ \A kl \in s :
               /\ Lt(TimesTol(fn.x[kl]), Negate(fn.x[ij]))
               /\ Lt(TimesTol(FloorValue), Negate(fn.x[ij]))

\* C19: truncate0(x, axis) fails exactly when, in some slice along the reduced
\* axis, the magnitude of the most negative entry exceeds 1e-13 times the largest
\* entry (floored at 1e-300); otherwise it returns an array all of whose entries
\* are >= 0.
C19_FailsOrNonNegative ==
    fn.op = "truncate0" =>
        IF \E s \in Slices(fn.axis) : Exceeds(s)
        THEN fn.err = "AssertionError"
        ELSE /\ fn.err = "none"
             /\ \A ij \in RowIdx \X ColIdx : fn.val[ij].m >= 0

\* C19 witness: a call along axis 1 that returns, whose argument had a negative
\* entry within the tolerance of its row.
C19_Witness ==
    /\ fn.op = "truncate0" /\ fn.err = "none" /\ fn.axis = <<1>>
    /\ \E ij \in RowIdx \X ColIdx : fn.x[ij].m < 0 /\ fn.val[ij] = Zero

\* the tuples of per-leaf derived counts of the demography, in the order of the
\* sorted leaves, whose total is neither 0 nor the sample size
PolymorphicTuples ==
    LET sorted == SortedLeaves(edges)
        n == SumSeq([i \in 1..Len(sorted) |-> n_lineages(attr, sorted[i])])
    IN {c \in [1..Len(sorted) -> 0..MaxLineages] :
           /\ \A i \in 1..Len(sorted) : c[i] <= n_lineages(attr, sorted[i])
           /\ SumSeq(c) # 0
           /\ SumSeq(c) # n}

\* C20: polymorphic_configs(demo) returns every tuple of per-leaf derived counts c
\* with 0 <= c[l] <= n_lineages(l) whose total is neither 0 nor the sample size
\* exactly once, and no other tuple.
C20_ExactlyPolymorphic ==
    fn.op = "polymorphic_configs" =>
        /\ {fn.val[k] : k \in 1..Len(fn.val)} = PolymorphicTuples
        /\ \A j, k \in 1..Len(fn.val) : fn.val[j] = fn.val[k] => j = k

\* the nodes reachable from the nodes S
RECURSIVE Descendants(_, _)
Descendants(G, S) ==
    LET S2 == S \cup UNION {Children(G, v) : v \in S}
    IN IF S2 = S THEN S ELSE Descendants(G, S2)

MomiFields == {"lineages", "N", "ancestral", "derived"}

\* what a graph says of each node whatever the node is called: the leaves below it,
\* the lengths of the edges into it and its momi fields
Shape(G) ==
    {[leaves |-> LeavesOf(G) \cap Descendants(G, {v}),
      lengths |-> {G.edges[<<u, v>>] : u \in Parents(G, v)},
      fields |-> [k \in (DOMAIN G.nodes[v]) \cap MomiFields |-> G.nodes[v][k]]] :
        v \in DOMAIN G.nodes}

FromBinaryText == fn.op = "newick" /\ fn.newick # <<>> /\ fn.newick[1] \in BinaryTexts

\* C21: for a Demography d built by from_newick from a strictly binary tree,
\* from_newick(to_newick(d)) is a Demography with the same leaf names, the same
\* parent-child structure, the same branch lengths and the same lineages, N,
\* ancestral and derived at every node as d.
C21_RoundTrip ==
    (FromBinaryText /\ fn.pc = "read") =>
        /\ fn.d2.ok
        /\ LeavesOf(fn.d2.G) = LeavesOf(fn.d.G)
        /\ Shape(fn.d2.G) = Shape(fn.d.G)

\* a node that is no root and has more than one parent, or a node with children
\* that has not exactly two
Malformed(G) ==
    \/ \E v \in DOMAIN G.nodes : Cardinality(Parents(G, v)) > 1
    \/ \E v \in DOMAIN G.nodes : Cardinality(Children(G, v)) \notin {0, 2}

\* C22: to_newick fails, returning no string, for every graph with a non-root node
\* of more than one parent or a node whose children are not exactly two; the text
\* of a graph whose root has no incoming edge carries no root edge length.
C22_MalformedFails ==
    (fn.op = "newick" /\ fn.pc = "written") =>
        /\ Malformed(fn.d.G) => (fn.text.err # "none" /\ fn.text.str = <<>>)
        /\ fn.text.err = "none" => fn.text.str[1].length = <<>>

\* the graph _newick_to_nx returned has one node per clade of t, one edge per
\* parent-child pair with the child's branch length, one name per clade however
\* often the clade was taken from the work list, and default_lineages at every
\* leaf whose comment has no lineages
FaithfulGraph(t, default_lineages, nx) ==
    /\ Cardinality(DOMAIN nx.nodes) = Cardinality(Paths(t))
    /\ Cardinality(DOMAIN nx.edges) = Cardinality(Paths(t)) - 1
    /\ \A p \in Paths(t) : \A k \in 1..Len(Sub(t, p).clades) :
           /\ <<nx.names[p][1], nx.names[p \o <<k>>][1]>> \in DOMAIN nx.edges
           /\ nx.edges[<<nx.names[p][1], nx.names[p \o <<k>>][1]>>] = Sub(t, p \o <<k>>).length
    /\ \A p \in Paths(t) :
           /\ nx.names[p] # <<>>
           /\ {tk \in nx.taken : tk[1] = p} = {<<p, nx.names[p]>>}
           /\ Sub(t, p).name # <<>> => nx.names[p] = Sub(t, p).name
    /\ \A p \in Paths(t) :
           (/\ Sub(t, p).clades = <<>>
            /\ "lineages" \notin DOMAIN extract_momi_fields(Sub(t, p).comment)
            /\ default_lineages # <<>>)
           => nx.nodes[nx.names[p][1]].lineages = default_lineages[1]

\* the names written in the text are pairwise distinct and none of them is a name
\* _newick_to_nx makes up
DistinctNames(t) ==
    /\ \A p, q \in Paths(t) : (Sub(t, p).name # <<>> /\ Sub(t, p).name = Sub(t, q).name) => p = q
    /\ \A p \in Paths(t) : \A i \in 1..Len(NodeNames) :
           Sub(t, p).name # <<NodeNames[i]>> /\ Sub(t, p).name # <<"root">>

\* C29 as stated: on every tree _newick_to_nx returns a graph with exactly one node
\* per clade and one edge per parent-child pair carrying the child's branch length,
\* every unnamed clade has one name that never changes, and a leaf without lineages
\* has default_lineages when a default is given.
C29_OneNodePerClade ==
    (fn.op = "newick" /\ fn.nx # <<>>) =>
        FaithfulGraph(fn.newick[1], fn.default_lineages, fn.nx[1])

\* C29 amended: the same for every tree whose written names are pairwise distinct
\* and differ from "root" and from the names "node<i>".
C29_OneNodePerCladeDistinctNames ==
    (fn.op = "newick" /\ fn.nx # <<>> /\ DistinctNames(fn.newick[1])) =>
        FaithfulGraph(fn.newick[1], fn.default_lineages, fn.nx[1])

\* C29 witness: a text of five clades with distinct names, two of them unnamed
\* besides the root, each clade taken from the work list more than once on the
\* whole, and a leaf that received the default lineages.
C29_Witness ==
    /\ fn.op = "newick" /\ fn.nx # <<>> /\ DistinctNames(fn.newick[1])
    /\ Cardinality(Paths(fn.newick[1])) = 5
    /\ fn.nx[1].pops > 5
    /\ Cardinality({p \in Paths(fn.newick[1]) : Sub(fn.newick[1], p).name = <<>>}) = 3
    /\ fn.default_lineages = <<1>>
    /\ \E p \in Paths(fn.newick[1]) :
           /\ Sub(fn.newick[1], p).clades = <<>> /\ Sub(fn.newick[1], p).comment = <<>>
           /\ fn.nx[1].nodes[fn.nx[1].names[p][1]] = [lineages |-> 1]

\* the derived and ancestral attributes of a node dict
AlleleState(ndn) == [k \in (DOMAIN ndn) \cap {"derived", "ancestral"} |-> ndn[k]]

\* C24: evaluating totalSfsSum leaves every leaf with the derived and ancestral
\* attributes it had before the call, also when some leaf had none, and
\* n_derived_subtended_by reads the same after the call as before it.
C24_LeafStateKept ==
    fn.op = "totalSfsSum" =>
        /\ \A l \in leaves(edges) : AlleleState(fn.after[l]) = AlleleState(fn.before[l])
        /\ fn.read_after = fn.read_before

\* what evaluation e would read of the leaf state it set itself
OwnRead(e) ==
    [leaf |-> LeafState(edges, [v \in Nodes |-> IF v \in leaves(edges) THEN fn.set[e][1][v]
                                                ELSE EmptyDict]),
     n_derived |-> <<n_derived_subtended_by(edges,
                        [v \in Nodes |-> IF v \in leaves(edges) THEN fn.set[e][1][v]
                                         ELSE EmptyDict])>>]

\* C23: a Demography shared by two evaluations is unsafe without synchronization:
\* an evaluation reads the leaf counts and derived counts it set itself only if no
\* update_state of the other evaluation, its own or one made by its totalSfsSum
\* computation, came between the evaluation's update_state and its read; the
\* witness is an interleaving in which it reads counts it did not set.
C23_OwnStateOnlyIfUndisturbed ==
    fn.op = "evals" =>
        \A e \in Evals : (fn.pc[e] = "read" /\ ~fn.dirty[e]) => fn.got[e][1] = OwnRead(e)

\* C23 witness: both evaluations have read; evaluation 2 read leaf counts that
\* differ from those it set, and cached derived counts that differ from its own.
C23_Witness ==
    /\ fn.op = "evals" /\ fn.pc[1] = "read" /\ fn.pc[2] = "read"
    /\ fn.got[2][1].leaf # OwnRead(2).leaf
    /\ fn.got[2][1].n_derived # OwnRead(2).n_derived

\* C26: when truncate0(x) succeeds, every entry that is >= 0 on input has the same
\* value in the returned array and every negative entry is 0 in it.
C26_OnlyNegativesChange ==
    (fn.op = "truncate0" /\ fn.err = "none") =>
        \A ij \in RowIdx \X ColIdx :
            IF fn.x[ij].m < 0 THEN fn.val[ij] = Zero ELSE fn.val[ij] = fn.x[ij]

\* ------------------------------------------------------------- claim C25
\* g times the gradient of the subroutine at x
TimesGradient(g, x) == [k \in 1..Len(subroutine_grad(x)) |-> g * subroutine_grad(x)[k]]

\* C25: under rearrange_gradient every forward call evaluates the subroutine once,
\* and only forward calls evaluate it; each forward call stores its gradient in a list
\* of its own; and a reverse pass that returns gives g times the gradient at the
\* input of the forward call it belongs to
C25_OwnGradient ==
    fn.op = "rearranged" =>
        /\ Len(fn.evals) = Len(fn.calls)
        /\ \A i \in 1..Len(fn.calls) :
               /\ fn.evals[i] = fn.calls[i].x
               /\ fn.calls[i].fx = subroutine(fn.calls[i].x)
               /\ fn.heap[fn.calls[i].container] = <<subroutine_grad(fn.calls[i].x)>>
               /\ \A j \in 1..Len(fn.calls) :
                      i # j => fn.calls[i].container # fn.calls[j].container
        /\ (fn.back.call # 0 /\ fn.back.err = "none") =>
               fn.back.val = TimesGradient(fn.back.g, fn.calls[fn.back.call].x)

\* two forward calls at different inputs, then the reverse pass of the first with
\* g not zero
C25_Witness ==
    /\ fn.op = "rearranged"
    /\ Len(fn.calls) = 2
    /\ fn.calls[1].x # fn.calls[2].x
    /\ fn.back.call = 1
    /\ fn.back.err = "none"
    /\ fn.back.g # 0
    /\ fn.back.val # TimesGradient(fn.back.g, fn.calls[2].x)

\* ------------------------------------------------------------- claim C27
\* the constructor is one sequential run: a step that can be taken is taken
\* the SFS of every length up to MaxLen, over the first configurations
SlicedSfs ==
    {data \in SfsOfLen(MaxLen) :
        \A i \in 1..Len(data) :
            data[i].config = <<Config1, Config2, Config3, Config4, Config5>>[i]}

InitBatchFair == InitBatch /\ sfs \in SlicedSfs

SpecBatchFair ==
    /\ InitBatchFair /\ [][NextBatch]_vars
    /\ WF_vars(SfsLikelihoodSurface_init)
    /\ WF_vars(slice_loop)
    /\ WF_vars(build_batches)

\* the constructor has come to its end, with the batches or with an exception
Constructed == lpc \in {"ready", "AssertionError"}

\* int(batch_size) is at least 1
WholeBatch == IntBatchSize >= 1

\* C27: the construction of an SfsLikelihoodSurface comes to an end for every SFS
\* and every batch_size greater than 0, whole or not, and every turn of the loop
\* that builds the slices moves the start index forward
C27_Terminates ==
    /\ <>Constructed
    /\ [][slice_loop => prev_idx' > prev_idx]_vars

\* the construction comes to an end when int(batch_size) is at least 1, and every
\* turn of the loop then moves the start index forward
C27_TerminatesWholeBatch ==
    /\ WholeBatch => <>Constructed
    /\ [][(WholeBatch /\ slice_loop) => prev_idx' > prev_idx]_vars

\* ------------------------------------------------------------- claim C28
\* the call of find_optimum has returned or raised
CallEnded == fn.op = "find_optimum" /\ fn.pc \in {"returned", "raised"}

\* C28: when find_optimum has returned or raised, the logger has the handlers, the
\* level and the propagate flag it had before the call; without a log_file the
\* logger is the same at every point of the call
C28_LoggerRestored ==
    fn.op = "find_optimum" =>
        /\ CallEnded => fn.logger = fn.before
        /\ ~fn.given => fn.logger = fn.before /\ fn.during = fn.before

\* a call with a log_file that changed the level, the flag and the handlers of the
\* logger and then failed inside the optimizer
C28_Witness ==
    /\ CallEnded
    /\ fn.given
    /\ fn.pc = "raised"
    /\ opt.err = "AssertionError"
    /\ fn.during.level # fn.before.level
    /\ fn.during.propagate # fn.before.propagate
    /\ fn.during.handlers # fn.before.handlers
    /\ fn.logger = fn.before

====
